---- MODULE Spec2Model ----
(***************************************************************************)
(* Model of the webStorage service of angular-webstorage 0.14.0            *)
(* (src/unnamed/part_000): the three storage engines (local, session,      *)
(* memory), the cookie emulation installed when a native Storage object is *)
(* absent, the generic API that walks the engines in `order`, and the      *)
(* prefix/order/errorName settings.                                        *)
(*                                                                         *)
(* JavaScript values are records [t, s, e]: t is the typeof-like tag, s    *)
(* the textual payload (digits of a number, characters of a string, the    *)
(* literal of a boolean), e the elements of an array.  Backend strings     *)
(* (raw keys, serialized values, cookie names and values) are strings.     *)
(***************************************************************************)
EXTENDS Integers, Sequences, FiniteSets, TLC

VARIABLES
    pc,               \* position in the factory body: "testLocal", "testSession", "setup", "ready"
    env,              \* the host: what window.localStorage/sessionStorage are at load, cookies enabled
    winLocal,         \* window.localStorage
    winSession,       \* window.sessionStorage
    cookie,           \* the document's cookie jar (document.cookie)
    ram,              \* the in-memory store: own properties of `ram`, in insertion order
    prefix,           \* var prefix
    order,            \* var order
    errorName,        \* var errorName
    hasLocalStorage,  \* var hasLocalStorage
    hasSessionStorage,\* var hasSessionStorage
    isLocalStoragePolyfilled,   \* var isLocalStoragePolyfilled
    isSessionStoragePolyfilled, \* var isSessionStoragePolyfilled
    isSupported,      \* webStorage.local/session/memory.isSupported
    calls,            \* number of public calls made so far
    last              \* the last public call: its name, arguments, result and broadcasts

vars == <<pc, env, winLocal, winSession, cookie, ram, prefix, order, errorName,
          hasLocalStorage, hasSessionStorage, isLocalStoragePolyfilled,
          isSessionStoragePolyfilled, isSupported, calls, last>>

\* Number of public calls explored after the factory has run.
MaxCalls == 2

-----------------------------------------------------------------------------
(* JavaScript values *)

Null == [t |-> "null", s |-> "", e |-> <<>>]
Undefined == [t |-> "undefined", s |-> "", e |-> <<>>]
Func == [t |-> "function", s |-> "", e |-> <<>>]
Num(n) == [t |-> "number", s |-> n, e |-> <<>>]
Str(x) == [t |-> "string", s |-> x, e |-> <<>>]
Bool(b) == [t |-> "boolean", s |-> IF b THEN "true" ELSE "false", e |-> <<>>]
Arr(es) == [t |-> "array", s |-> "", e |-> es]

True == Bool(TRUE)
False == Bool(FALSE)

\* JavaScript's ToBoolean.
Truthy(v) ==
    CASE v.t = "null" -> FALSE
      [] v.t = "undefined" -> FALSE
      [] v.t = "boolean" -> v.s = "true"
      [] v.t = "number" -> v.s # "0"
      [] v.t = "string" -> v.s # ""
      [] OTHER -> TRUE

Digits == {"0", "1", "2", "3", "4", "5", "6", "7", "8", "9"}

Char(x, i) == SubSeq(x, i, i)

RECURSIVE JoinElems(_, _)
JoinElems(texts, i) ==
    IF i > Len(texts) THEN ""
    ELSE texts[i] \o (IF i < Len(texts) THEN "," ELSE "") \o JoinElems(texts, i + 1)

\* JavaScript's string conversion, as used by `prefix + key`, by Storage.setItem,
\* by RegExp.prototype.test and by a property access.  An array converts to its
\* elements joined by commas, null and undefined elements to nothing.
RECURSIVE ToStr(_)
ToStr(v) ==
    CASE v.t = "string" -> v.s
      [] v.t = "number" -> v.s
      [] v.t = "boolean" -> v.s
      [] v.t = "null" -> "null"
      [] v.t = "undefined" -> "undefined"
      [] v.t = "array" ->
           JoinElems([i \in 1..Len(v.e) |->
                         IF v.e[i].t \in {"null", "undefined"} THEN ""
                         ELSE ToStr(v.e[i])], 1)
      [] OTHER -> "[object]"

\* JSON.stringify of a scalar; a value without a JSON text stringifies to undefined.
StringifyScalar(v) ==
    CASE v.t = "null" -> Str("null")
      [] v.t = "boolean" -> Str(v.s)
      [] v.t = "number" -> Str(v.s)
      [] v.t = "string" -> Str("\"" \o v.s \o "\"")
      [] OTHER -> Undefined

\* JSON.stringify(value): the JSON text as a JavaScript string, or undefined.
\* Inside an array a value without a JSON text is written as null.
JSONstringify(v) ==
    IF v.t = "array"
    THEN LET elemText(x) == IF StringifyScalar(x).t = "undefined" THEN "null"
                            ELSE StringifyScalar(x).s
             texts == [i \in 1..Len(v.e) |-> elemText(v.e[i])]
         IN Str("[" \o JoinElems(texts, 1) \o "]")
    ELSE StringifyScalar(v)

IsDigits(x) == Len(x) > 0 /\ \A i \in 1..Len(x) : Char(x, i) \in Digits

\* JSON.parse of a scalar text: [ok, v]; ok = FALSE is the SyntaxError.
ParseScalar(x) ==
    CASE x = "null" -> [ok |-> TRUE, v |-> Null]
      [] x = "true" -> [ok |-> TRUE, v |-> True]
      [] x = "false" -> [ok |-> TRUE, v |-> False]
      [] IsDigits(x) -> [ok |-> TRUE, v |-> Num(x)]
      [] Len(x) >= 2 /\ Char(x, 1) = "\"" /\ Char(x, Len(x)) = "\""
           /\ \A i \in 2..(Len(x) - 1) : Char(x, i) # "\"" ->
             [ok |-> TRUE, v |-> Str(SubSeq(x, 2, Len(x) - 1))]
      [] OTHER -> [ok |-> FALSE, v |-> Undefined]

\* The texts between the commas of x (x holds no nested arrays).
RECURSIVE SplitCommas(_, _, _)
SplitCommas(x, i, cur) ==
    IF i > Len(x) THEN <<cur>>
    ELSE IF Char(x, i) = "," THEN <<cur>> \o SplitCommas(x, i + 1, "")
    ELSE SplitCommas(x, i + 1, cur \o Char(x, i))

\* JSON.parse(text): [ok, v]; ok = FALSE is the SyntaxError it throws.
JSONparse(x) ==
    IF Len(x) >= 2 /\ Char(x, 1) = "[" /\ Char(x, Len(x)) = "]"
    THEN LET inner == SubSeq(x, 2, Len(x) - 1)
             parts == IF inner = "" THEN <<>> ELSE SplitCommas(inner, 1, "")
             parsed == [i \in 1..Len(parts) |-> ParseScalar(parts[i])]
         IN IF \A i \in 1..Len(parts) : parsed[i].ok
            THEN [ok |-> TRUE, v |-> Arr([i \in 1..Len(parts) |-> parsed[i].v])]
            ELSE [ok |-> FALSE, v |-> Undefined]
    ELSE ParseScalar(x)

-----------------------------------------------------------------------------
(* escape() and unescape(), on the characters the model uses *)

EscapeChar(c) ==
    CASE c = "\"" -> "%22"
      [] c = "[" -> "%5B"
      [] c = "]" -> "%5D"
      [] c = "," -> "%2C"
      [] c = "=" -> "%3D"
      [] c = ";" -> "%3B"
      [] c = " " -> "%20"
      [] c = "%" -> "%25"
      [] OTHER -> c

UnescapeCode(code) ==
    CASE code = "22" -> "\""
      [] code = "5B" -> "["
      [] code = "5D" -> "]"
      [] code = "2C" -> ","
      [] code = "3D" -> "="
      [] code = "3B" -> ";"
      [] code = "20" -> " "
      [] code = "25" -> "%"
      [] OTHER -> "%" \o code

RECURSIVE escape(_)
escape(x) ==
    IF x = "" THEN "" ELSE EscapeChar(Char(x, 1)) \o escape(SubSeq(x, 2, Len(x)))

RECURSIVE unescape(_)
unescape(x) ==
    IF x = "" THEN ""
    ELSE IF Char(x, 1) = "%" /\ Len(x) >= 3
         THEN UnescapeCode(SubSeq(x, 2, 3)) \o unescape(SubSeq(x, 4, Len(x)))
         ELSE Char(x, 1) \o unescape(SubSeq(x, 2, Len(x)))

\* String.prototype.substr(0, n) === p, the prefix test of clearLocal/clearSession.
StartsWith(x, p) == Len(x) >= Len(p) /\ SubSeq(x, 1, Len(p)) = p

-----------------------------------------------------------------------------
(* The backends: a native Storage object, or the cookie emulation *)

\* A native Storage object holding `items` (<<key, text>> pairs in key() order).
\* disabled: setItem always throws (storage switched off, zero quota).
\* throws: the members whose use throws at present (quota reached, access
\* revoked by the user agent).
NativeStorage(items, disabled) ==
    [kind |-> "native", items |-> items, length |-> 0, disabled |-> disabled,
     persistent |-> FALSE, throws |-> {}]

\* The object literal polyfillLocalStorage/polyfillSessionStorage installs: it
\* keeps the entries in the cookie jar and caches their number in `length`.
PolyfillStorage(length, persistent) ==
    [kind |-> "polyfill", items |-> <<>>, length |-> length, disabled |-> FALSE,
     persistent |-> persistent, throws |-> {}]

\* window.localStorage / window.sessionStorage undefined or null.
NoStorage ==
    [kind |-> "none", items |-> <<>>, length |-> 0, disabled |-> FALSE,
     persistent |-> FALSE, throws |-> {}]

\* Own enumerable properties of the emulation object, as for-in visits them.
PolyfillProps == <<"getItem", "key", "setItem", "length", "removeItem", "hasOwnProperty">>

IndexOf(items, k) ==
    IF \E i \in 1..Len(items) : items[i][1] = k
    THEN CHOOSE i \in 1..Len(items) : items[i][1] = k
    ELSE 0

\* items with k mapped to x: in place when k is there, appended otherwise.
PutItem(items, k, x) ==
    IF IndexOf(items, k) > 0
    THEN [items EXCEPT ![IndexOf(items, k)] = <<k, x>>]
    ELSE Append(items, <<k, x>>)

DropItem(items, k) ==
    LET keep == {i \in 1..Len(items) : items[i][1] # k}
        nth(n) == CHOOSE i \in keep : Cardinality({j \in keep : j < i}) = n - 1
    IN [n \in 1..Cardinality(keep) |-> items[nth(n)]]

\* document.cookie = name=value [; expires=<2038>]; path=/
\* persistent: the cookie has the 2038 expiry and outlives the browser session.
\* everPersistent: it was written with that expiry at some time since it came
\* into being (a note for the properties; no code reads it).
CookieWrite(jar, name, value, persistent) ==
    LET at == IF \E i \in 1..Len(jar) : jar[i].name = name
              THEN CHOOSE i \in 1..Len(jar) : jar[i].name = name ELSE 0
        c == [name |-> name, value |-> value, persistent |-> persistent,
              everPersistent |-> persistent \/ (at > 0 /\ jar[at].everPersistent)]
    IN IF at > 0 THEN [jar EXCEPT ![at] = c] ELSE Append(jar, c)

\* document.cookie = name=; expires=<1970>; path=/
CookieExpire(jar, name) ==
    LET keep == {i \in 1..Len(jar) : jar[i].name # name}
        nth(n) == CHOOSE i \in keep : Cardinality({j \in keep : j < i}) = n - 1
    IN [n \in 1..Cardinality(keep) |-> jar[nth(n)]]

\* document.cookie.match(/\=/g): the number of "=" of "n1=v1; n2=v2; ...".
CookieEquals(jar) == Len(jar)

\* The emulation's hasOwnProperty(sKey): a cookie named escape(sKey) exists.
PolyfillHas(jar, sKey) == \E i \in 1..Len(jar) : jar[i].name = escape(sKey)

\* What a call of a backend primitive yields: the object and the jar after the
\* call, the value returned and whether the call threw.
Prim(obj, jar, ret, threw) == [obj |-> obj, jar |-> jar, ret |-> ret, threw |-> threw]

\* storage.setItem(sKey, sValue)
setItem(obj, jar, sKey, sValue) ==
    CASE "setItem" \in obj.throws -> Prim(obj, jar, Undefined, TRUE)
      [] obj.kind = "native" ->
           IF obj.disabled THEN Prim(obj, jar, Undefined, TRUE)
           ELSE Prim([obj EXCEPT !.items = PutItem(@, sKey, ToStr(sValue))],
                     jar, Undefined, FALSE)
      [] obj.kind = "polyfill" ->
           IF sKey = "" THEN Prim(obj, jar, Undefined, FALSE)
           ELSE LET jar2 == CookieWrite(jar, escape(sKey), escape(ToStr(sValue)),
                                        obj.persistent)
                IN IF CookieEquals(jar2) = 0
                   THEN Prim(obj, jar2, Undefined, TRUE)
                   ELSE Prim([obj EXCEPT !.length = CookieEquals(jar2)], jar2,
                             Undefined, FALSE)
      [] OTHER -> Prim(obj, jar, Undefined, TRUE)

\* storage.getItem(sKey): the stored text as a string value, or null.
getItem(obj, jar, sKey) ==
    CASE "getItem" \in obj.throws -> Prim(obj, jar, Undefined, TRUE)
      [] obj.kind = "native" ->
           IF IndexOf(obj.items, sKey) > 0
           THEN Prim(obj, jar, Str(obj.items[IndexOf(obj.items, sKey)][2]), FALSE)
           ELSE Prim(obj, jar, Null, FALSE)
      [] obj.kind = "polyfill" ->
           IF sKey = "" \/ ~PolyfillHas(jar, sKey) THEN Prim(obj, jar, Null, FALSE)
           ELSE LET c == CHOOSE i \in 1..Len(jar) : jar[i].name = escape(sKey)
                IN Prim(obj, jar, Str(unescape(jar[c].value)), FALSE)
      [] OTHER -> Prim(obj, jar, Undefined, TRUE)

\* storage.removeItem(sKey)
removeItem(obj, jar, sKey) ==
    CASE "removeItem" \in obj.throws -> Prim(obj, jar, Undefined, TRUE)
      [] obj.kind = "native" ->
           Prim([obj EXCEPT !.items = DropItem(@, sKey)], jar, Undefined, FALSE)
      [] obj.kind = "polyfill" ->
           IF sKey = "" \/ ~PolyfillHas(jar, sKey) THEN Prim(obj, jar, Undefined, FALSE)
           ELSE Prim([obj EXCEPT !.length = @ - 1], CookieExpire(jar, escape(sKey)),
                     Undefined, FALSE)
      [] OTHER -> Prim(obj, jar, Undefined, TRUE)

\* storage.key(n).  The emulation splits document.cookie into its names, takes
\* the n-th (undefined when there is none) and passes it through unescape.
storageKey(obj, jar, n) ==
    CASE "key" \in obj.throws -> Prim(obj, jar, Undefined, TRUE)
      [] obj.kind = "native" ->
           IF n >= 0 /\ n < Len(obj.items)
           THEN Prim(obj, jar, Str(obj.items[n + 1][1]), FALSE)
           ELSE Prim(obj, jar, Null, FALSE)
      [] obj.kind = "polyfill" ->
           LET names == IF Len(jar) = 0 THEN <<"">>
                        ELSE [i \in 1..Len(jar) |-> jar[i].name]
           IN IF n >= 0 /\ n < Len(names)
              THEN Prim(obj, jar, Str(unescape(names[n + 1])), FALSE)
              ELSE Prim(obj, jar, Str(unescape(ToStr(Undefined))), FALSE)
      [] OTHER -> Prim(obj, jar, Undefined, TRUE)

\* storage.length
storageLength(obj, jar) ==
    CASE "length" \in obj.throws -> Prim(obj, jar, 0, TRUE)
      [] obj.kind = "native" -> Prim(obj, jar, Len(obj.items), FALSE)
      [] obj.kind = "polyfill" -> Prim(obj, jar, obj.length, FALSE)
      [] OTHER -> Prim(obj, jar, 0, TRUE)

\* storage.clear(): the emulation object defines no clear, so the call throws.
storageClear(obj, jar) ==
    CASE "clear" \in obj.throws -> Prim(obj, jar, Undefined, TRUE)
      [] obj.kind = "native" -> Prim([obj EXCEPT !.items = <<>>], jar, Undefined, FALSE)
      [] OTHER -> Prim(obj, jar, Undefined, TRUE)

\* The names `for (var key in storage)` visits: the stored keys of a native
\* object, the own properties of the emulation object.
ForInKeys(obj) ==
    CASE obj.kind = "native" -> [i \in 1..Len(obj.items) |-> obj.items[i][1]]
      [] obj.kind = "polyfill" -> PolyfillProps
      [] OTHER -> <<>>

-----------------------------------------------------------------------------
(* The service's private state, and what a function of the service yields *)

\* The state a function of the service reads and writes, as one record.
\* broadcasts: the event names passed to $rootScope.$broadcast during the call.
\* invoked: the engine functions entered during the call, with their results.
\* held: the arrays the caller holds after the call (the one returned, the one
\* passed in), each with whether it is the very object `order` refers to.
\* note: what the caller remembers from its earlier calls (carried from call
\* to call; no function of the service reads it).
W ==
    [winLocal |-> winLocal, winSession |-> winSession, cookie |-> cookie, ram |-> ram,
     prefix |-> prefix, order |-> order, errorName |-> errorName,
     hasLocalStorage |-> hasLocalStorage, hasSessionStorage |-> hasSessionStorage,
     isLocalStoragePolyfilled |-> isLocalStoragePolyfilled,
     isSessionStoragePolyfilled |-> isSessionStoragePolyfilled,
     isSupported |-> isSupported, broadcasts |-> <<>>, invoked |-> <<>>,
     held |-> <<>>, note |-> last.note]

\* The state after the call, the value returned, and whether an exception
\* left the function instead.
Res(w, ret, threw) == [w |-> w, ret |-> ret, threw |-> threw]

\* A croak that broadcasts on the default error name, whatever is configured.
croak_DefaultName(w) ==
    [w EXCEPT !.broadcasts = Append(@, "webStorage.notification.error")]

\* croak(error): broadcast on the current error name; the caller returns false.
croak(w) == [w EXCEPT !.broadcasts = Append(@, w.errorName)]

\* prefix + key
RawKey(w, key) == ToStr(w.prefix) \o key

\* The global localStorage / sessionStorage the functions of an engine use.
Win(w, E) == IF E = "local" THEN w.winLocal ELSE w.winSession

\* A guard that takes every engine for supported.
HasStorage_Always(w, E) == TRUE

\* if (hasLocalStorage) / if (hasSessionStorage)
HasStorage(w, E) == IF E = "local" THEN w.hasLocalStorage ELSE w.hasSessionStorage

\* w after a backend primitive of engine E returned p.
With(w, E, p) ==
    IF E = "local" THEN [w EXCEPT !.winLocal = p.obj, !.cookie = p.jar]
    ELSE [w EXCEPT !.winSession = p.obj, !.cookie = p.jar]

\* JSON.stringify throws a TypeError on a structure with a circular reference.
Circular == [t |-> "circular", s |-> "", e |-> <<>>]
StringifyThrows(v) == v.t = "circular"

-----------------------------------------------------------------------------
(* The local and session engines (the two are the same code on two globals) *)

\* A set that takes the engine for unsupported once its backend has thrown.
setInStorage_GivesUp(w, E, key, value) ==
    IF HasStorage(w, E)
    THEN IF StringifyThrows(value) THEN Res(croak(w), False, FALSE)
         ELSE LET p == setItem(Win(w, E), w.cookie, RawKey(w, key), JSONstringify(value))
              IN IF p.threw
                 THEN Res(croak([With(w, E, p) EXCEPT !.hasLocalStorage = FALSE,
                                                     !.hasSessionStorage = FALSE]),
                          False, FALSE)
                 ELSE Res(With(w, E, p), True, FALSE)
    ELSE Res(w, False, FALSE)

setInStorage(w, E, key, value) ==
    IF HasStorage(w, E)
    THEN IF StringifyThrows(value) THEN Res(croak(w), False, FALSE)
         ELSE LET p == setItem(Win(w, E), w.cookie, RawKey(w, key), JSONstringify(value))
              IN IF p.threw THEN Res(croak(With(w, E, p)), False, FALSE)
                 ELSE Res(With(w, E, p), True, FALSE)
    ELSE Res(w, False, FALSE)

setInLocal(w, key, value) == setInStorage(w, "local", key, value)
setInSession(w, key, value) == setInStorage(w, "session", key, value)

\* return value && JSON.parse(value);
getFromStorage(w, E, key) ==
    IF HasStorage(w, E)
    THEN LET p == getItem(Win(w, E), w.cookie, RawKey(w, key))
         IN IF p.threw THEN Res(croak(w), Null, FALSE)
            ELSE IF ~Truthy(p.ret) THEN Res(w, p.ret, FALSE)
            ELSE IF ~JSONparse(p.ret.s).ok THEN Res(croak(w), Null, FALSE)
            ELSE Res(w, JSONparse(p.ret.s).v, FALSE)
    ELSE Res(w, Null, FALSE)

getFromLocal(w, key) == getFromStorage(w, "local", key)
getFromSession(w, key) == getFromStorage(w, "session", key)

\* return null !== getFromLocal(key);
hasInLocal(w, key) ==
    LET r == getFromLocal(w, key) IN Res(r.w, Bool(r.ret # Null), r.threw)
hasInSession(w, key) ==
    LET r == getFromSession(w, key) IN Res(r.w, Bool(r.ret # Null), r.threw)

\* No try/catch here: what the backend throws leaves the function.
keyInStorage(w, E, num) ==
    IF HasStorage(w, E)
    THEN LET p == storageKey(Win(w, E), w.cookie, num)
         IN Res(w, p.ret, p.threw)
    ELSE Res(w, Null, FALSE)

keyInLocal(w, num) == keyInStorage(w, "local", num)
keyInSession(w, num) == keyInStorage(w, "session", num)

lengthInStorage(w, E) ==
    IF HasStorage(w, E)
    THEN LET p == storageLength(Win(w, E), w.cookie)
         IN Res(w, Num(ToString(p.ret)), p.threw)
    ELSE Res(w, Num("0"), FALSE)

lengthInLocal(w) == lengthInStorage(w, "local")
lengthInSession(w) == lengthInStorage(w, "session")

removeFromStorage(w, E, key) ==
    IF HasStorage(w, E)
    THEN LET p == removeItem(Win(w, E), w.cookie, RawKey(w, key))
         IN IF p.threw THEN Res(croak(With(w, E, p)), False, FALSE)
            ELSE Res(With(w, E, p), True, FALSE)
    ELSE Res(w, False, FALSE)

removeFromLocal(w, key) == removeFromStorage(w, "local", key)
removeFromSession(w, key) == removeFromStorage(w, "session", key)

\* for (var key in storage) { if (key.substr(0, prefixLength) === prefix)
\* storage.removeItem(key); } over the names collected when the loop starts.
RECURSIVE ClearPrefixed(_, _, _, _, _)
ClearPrefixed(obj, jar, names, i, pfx) ==
    IF i > Len(names) THEN Prim(obj, jar, Undefined, FALSE)
    ELSE IF StartsWith(names[i], pfx)
         THEN LET p == removeItem(obj, jar, names[i])
              IN IF p.threw THEN p ELSE ClearPrefixed(p.obj, p.jar, names, i + 1, pfx)
         ELSE ClearPrefixed(obj, jar, names, i + 1, pfx)

clearStorage(w, E) ==
    IF ~HasStorage(w, E) THEN Res(w, False, FALSE)
    ELSE IF Truthy(w.prefix)
         THEN LET p == ClearPrefixed(Win(w, E), w.cookie, ForInKeys(Win(w, E)), 1,
                                     ToStr(w.prefix))
              IN IF p.threw THEN Res(croak(With(w, E, p)), False, FALSE)
                 ELSE Res(With(w, E, p), True, FALSE)
         ELSE LET p == storageClear(Win(w, E), w.cookie)
              IN IF p.threw THEN Res(croak(With(w, E, p)), False, FALSE)
                 ELSE Res(With(w, E, p), True, FALSE)

clearLocal(w) == clearStorage(w, "local")
clearSession(w) == clearStorage(w, "session")

-----------------------------------------------------------------------------
(* The memory engine: the plain object `ram` *)

\* Properties every plain object inherits from Object.prototype.
ObjectPrototypeProps == {"constructor", "toString", "valueOf", "hasOwnProperty"}

\* key in ram: own or inherited.
InRam(w, key) == IndexOf(w.ram, key) > 0 \/ key \in ObjectPrototypeProps

\* ram[key]
RamAt(w, key) ==
    IF IndexOf(w.ram, key) > 0 THEN w.ram[IndexOf(w.ram, key)][2]
    ELSE IF key \in ObjectPrototypeProps THEN Func
    ELSE Undefined

setInMemory(w, key, value) ==
    Res([w EXCEPT !.ram = PutItem(@, key, value)], True, FALSE)

\* return key in ram ? ram[key] : null;
getFromMemory(w, key) ==
    IF InRam(w, key) THEN Res(w, RamAt(w, key), FALSE) ELSE Res(w, Null, FALSE)

hasInMemory(w, key) ==
    LET r == getFromMemory(w, key) IN Res(r.w, Bool(r.ret # Null), r.threw)

\* The own property names of ram as for-in visits them: the names that are
\* array indices first, ascending, then the others in insertion order (the
\* index-like keys of the model are single digits).
OwnKeys(items) ==
    LET idx == {i \in 1..Len(items) : items[i][1] \in Digits}
        oth == {i \in 1..Len(items) : items[i][1] \notin Digits}
        pos(i) == IF i \in idx
                  THEN Cardinality({j \in idx : items[j][1] \in
                           {d \in Digits : \E a, b \in 0..9 :
                               a < b /\ ToString(a) = d /\ ToString(b) = items[i][1]}})
                  ELSE Cardinality(idx) + Cardinality({j \in oth : j < i})
    IN [n \in 1..Len(items) |-> items[CHOOSE i \in 1..Len(items) : pos(i) = n - 1][1]]

\* ram.hasOwnProperty is no function: an entry named "hasOwnProperty" shadows
\* the inherited method with its value (a stored function stands for one that
\* answers true, as the inherited method does for the names for-in visits).
HasOwnPropertyShadowed(w) ==
    /\ IndexOf(w.ram, "hasOwnProperty") > 0
    /\ w.ram[IndexOf(w.ram, "hasOwnProperty")][2].t # "function"

\* for (var key in ram) { if (ram.hasOwnProperty(key)) ... }: the call in the
\* first round throws a TypeError when the method is shadowed.
keyInMemory(w, index) ==
    IF Len(w.ram) > 0 /\ HasOwnPropertyShadowed(w) THEN Res(w, Undefined, TRUE)
    ELSE IF index >= 0 /\ index < Len(w.ram)
    THEN Res(w, Str(OwnKeys(w.ram)[index + 1]), FALSE)
    ELSE Res(w, Null, FALSE)

lengthInMemory(w) == Res(w, Num(ToString(Len(w.ram))), FALSE)

removeFromMemory(w, key) == Res([w EXCEPT !.ram = DropItem(@, key)], True, FALSE)

clearMemory(w) == Res([w EXCEPT !.ram = <<>>], True, FALSE)

-----------------------------------------------------------------------------
(* Start-up: the cookie emulation and the support probes *)

\* defaultSettings.testKey
testKey == "webStorage.test.key"

\* if (!window.localStorage) { window.localStorage = {...}; isLocalStoragePolyfilled = true; }
polyfillLocalStorage(w) ==
    IF w.winLocal.kind = "none"
    THEN [w EXCEPT !.winLocal = PolyfillStorage(CookieEquals(w.cookie), TRUE),
                   !.isLocalStoragePolyfilled = TRUE]
    ELSE w

polyfillSessionStorage(w) ==
    IF w.winSession.kind = "none"
    THEN [w EXCEPT !.winSession = PolyfillStorage(CookieEquals(w.cookie), FALSE),
                   !.isSessionStoragePolyfilled = TRUE]
    ELSE w

\* The probe: set then remove prefix + testKey; true unless one of them throws.
\* A probe that leaves its entry behind.
testStorage_NoRemove(w, E) ==
    LET p == setItem(Win(w, E), w.cookie, RawKey(w, testKey), Str(testKey))
    IN Res(With(w, E, p), Bool(~p.threw), FALSE)

testStorage(w, E) ==
    LET p == setItem(Win(w, E), w.cookie, RawKey(w, testKey), Str(testKey))
    IN IF p.threw THEN Res(With(w, E, p), False, FALSE)
       ELSE LET q == removeItem(p.obj, p.jar, RawKey(w, testKey))
            IN Res(With(w, E, q), Bool(~q.threw), FALSE)

testLocalStorage(w) == testStorage(polyfillLocalStorage(w), "local")
testSessionStorage(w) == testStorage(polyfillSessionStorage(w), "session")

\* isLocalPolyfilled(removePolyfill)
isLocalPolyfilled(w, removePolyfill) ==
    IF removePolyfill = True /\ w.isLocalStoragePolyfilled
    THEN Res([w EXCEPT !.winLocal = NoStorage, !.isLocalStoragePolyfilled = FALSE],
             Bool(w.isLocalStoragePolyfilled), FALSE)
    ELSE Res(w, Bool(w.isLocalStoragePolyfilled), FALSE)

\* isSessionPolyfilled(removePolyfill): it resets the flag of the local engine.
isSessionPolyfilled(w, removePolyfill) ==
    IF removePolyfill = True /\ w.isSessionStoragePolyfilled
    THEN Res([w EXCEPT !.winSession = NoStorage, !.isLocalStoragePolyfilled = FALSE],
             Bool(w.isSessionStoragePolyfilled), FALSE)
    ELSE Res(w, Bool(w.isSessionStoragePolyfilled), FALSE)

-----------------------------------------------------------------------------
(* The generic API: the engines named by `order`, in turn *)

EngineNames == {"local", "session", "memory"}

\* r, with the entry of engine function op of engine `name` noted.
Invoked(r, name, op) ==
    Res([r.w EXCEPT !.invoked = Append(@, [engine |-> name, op |-> op, ret |-> r.ret])],
        r.ret, r.threw)

\* webStorage[name].set(key, value), and so on for the other operations.
engineSet(w, name, key, value) ==
    Invoked(CASE name = "local" -> setInLocal(w, key, value)
              [] name = "session" -> setInSession(w, key, value)
              [] OTHER -> setInMemory(w, key, value),
            name, "set")

engineGet(w, name, key) ==
    Invoked(CASE name = "local" -> getFromLocal(w, key)
              [] name = "session" -> getFromSession(w, key)
              [] OTHER -> getFromMemory(w, key),
            name, "get")

engineHas(w, name, key) ==
    Invoked(CASE name = "local" -> hasInLocal(w, key)
              [] name = "session" -> hasInSession(w, key)
              [] OTHER -> hasInMemory(w, key),
            name, "has")

engineKey(w, name, index) ==
    Invoked(CASE name = "local" -> keyInLocal(w, index)
              [] name = "session" -> keyInSession(w, index)
              [] OTHER -> keyInMemory(w, index),
            name, "key")

engineLength(w, name) ==
    Invoked(CASE name = "local" -> lengthInLocal(w)
              [] name = "session" -> lengthInSession(w)
              [] OTHER -> lengthInMemory(w),
            name, "length")

engineRemove(w, name, key) ==
    Invoked(CASE name = "local" -> removeFromLocal(w, key)
              [] name = "session" -> removeFromSession(w, key)
              [] OTHER -> removeFromMemory(w, key),
            name, "remove")

engineClear(w, name) ==
    Invoked(CASE name = "local" -> clearLocal(w)
              [] name = "session" -> clearSession(w)
              [] OTHER -> clearMemory(w),
            name, "clear")

\* A flag conversion that tests the argument for truthiness only, so that an
\* explicit false falls back to the default.
FlagOr_Truthy(allEngines, dflt) == IF Truthy(allEngines) THEN TRUE ELSE dflt

\* allEngines = typeof allEngines !== 'undefined' ? !!allEngines : dflt;
FlagOr(allEngines, dflt) == IF allEngines.t # "undefined" THEN Truthy(allEngines) ELSE dflt

\* var engine = webStorage[order[ith]]: the property access converts the entry
\* to a string.
EngineAt(w, ith) == ToStr(w.order[ith])

RECURSIVE SetLoop(_, _, _, _, _, _)
SetLoop(w, key, value, allEngines, ith, result) ==
    IF ith > Len(w.order) THEN Res(w, Bool(result), FALSE)
    ELSE IF w.isSupported[EngineAt(w, ith)]
         THEN LET r == engineSet(w, EngineAt(w, ith), key, value)
                  result2 == Truthy(r.ret) \/ result
              IN IF ~allEngines THEN Res(r.w, Bool(result2), FALSE)
                 ELSE SetLoop(r.w, key, value, allEngines, ith + 1, result2)
         ELSE SetLoop(w, key, value, allEngines, ith + 1, result)

\* A set that ignores its allEngines argument.
webStorage_set_FirstOnly(w, key, value, allEngines) ==
    SetLoop(w, key, value, FALSE, 1, FALSE)

webStorage_set(w, key, value, allEngines) ==
    SetLoop(w, key, value, FlagOr(allEngines, FALSE), 1, FALSE)

RECURSIVE GetLoop(_, _, _, _)
GetLoop(w, key, allEngines, ith) ==
    IF ith > Len(w.order) THEN Res(w, Null, FALSE)
    ELSE IF w.isSupported[EngineAt(w, ith)]
         THEN LET r == engineGet(w, EngineAt(w, ith), key)
              IN IF ~allEngines \/ r.ret # Null THEN r
                 ELSE GetLoop(r.w, key, allEngines, ith + 1)
         ELSE GetLoop(w, key, allEngines, ith + 1)

\* A get whose allEngines defaults to false, as the flag of set does.
webStorage_get_DefaultFalse(w, key, allEngines) ==
    GetLoop(w, key, FlagOr(allEngines, FALSE), 1)

webStorage_get(w, key, allEngines) == GetLoop(w, key, FlagOr(allEngines, TRUE), 1)

\* A has that looks at the first supported engine only.
webStorage_has_FirstOnly(w, key, allEngines) ==
    LET r == GetLoop(w, key, FALSE, 1) IN Res(r.w, Bool(r.ret # Null), r.threw)

\* return null !== webStorage.get(key, allEngines);
webStorage_has(w, key, allEngines) ==
    LET r == webStorage_get(w, key, allEngines) IN Res(r.w, Bool(r.ret # Null), r.threw)

RECURSIVE KeyLoop(_, _, _, _)
KeyLoop(w, index, allEngines, ith) ==
    IF ith > Len(w.order) THEN Res(w, Null, FALSE)
    ELSE IF w.isSupported[EngineAt(w, ith)]
         THEN LET r == engineKey(w, EngineAt(w, ith), index)
              IN IF r.threw \/ ~allEngines \/ r.ret # Null THEN r
                 ELSE KeyLoop(r.w, index, allEngines, ith + 1)
         ELSE KeyLoop(w, index, allEngines, ith + 1)

webStorage_key(w, index, allEngines) == KeyLoop(w, index, FlagOr(allEngines, TRUE), 1)

RECURSIVE LengthLoop(_, _, _)
LengthLoop(w, allEngines, ith) ==
    IF ith > Len(w.order) THEN Res(w, Num("0"), FALSE)
    ELSE IF w.isSupported[EngineAt(w, ith)]
         THEN LET r == engineLength(w, EngineAt(w, ith))
              IN IF r.threw \/ ~allEngines \/ r.ret # Num("0") THEN r
                 ELSE LengthLoop(r.w, allEngines, ith + 1)
         ELSE LengthLoop(w, allEngines, ith + 1)

webStorage_length(w, allEngines) == LengthLoop(w, FlagOr(allEngines, TRUE), 1)

RECURSIVE RemoveLoop(_, _, _, _, _)
RemoveLoop(w, key, allEngines, ith, result) ==
    IF ith > Len(w.order) THEN Res(w, Bool(result), FALSE)
    ELSE IF w.isSupported[EngineAt(w, ith)]
         THEN LET r == engineRemove(w, EngineAt(w, ith), key)
                  result2 == Truthy(r.ret) \/ result
              IN IF ~allEngines THEN Res(r.w, Bool(result2), FALSE)
                 ELSE RemoveLoop(r.w, key, allEngines, ith + 1, result2)
         ELSE RemoveLoop(w, key, allEngines, ith + 1, result)

webStorage_remove(w, key, allEngines) ==
    RemoveLoop(w, key, FlagOr(allEngines, TRUE), 1, FALSE)

RECURSIVE ClearLoop(_, _, _, _)
ClearLoop(w, allEngines, ith, result) ==
    IF ith > Len(w.order) THEN Res(w, Bool(result), FALSE)
    ELSE IF w.isSupported[EngineAt(w, ith)]
         THEN LET r == engineClear(w, EngineAt(w, ith))
                  result2 == Truthy(r.ret) \/ result
              IN IF ~allEngines THEN Res(r.w, Bool(result2), FALSE)
                 ELSE ClearLoop(r.w, allEngines, ith + 1, result2)
         ELSE ClearLoop(w, allEngines, ith + 1, result)

webStorage_clear(w, allEngines) == ClearLoop(w, FlagOr(allEngines, TRUE), 1, FALSE)

-----------------------------------------------------------------------------
(* The settings *)

\* webStorage.errorName(newErrorName)
webStorage_errorName(w, newErrorName) ==
    IF newErrorName.t # "undefined"
    THEN IF newErrorName.t # "string" THEN Res(w, False, FALSE)
         ELSE Res([w EXCEPT !.errorName = newErrorName.s], Str(w.errorName), FALSE)
    ELSE Res(w, Str(w.errorName), FALSE)

\* The entries of newOrder that /^(local|session|memory)$/.test accepts, in
\* order: test converts the entry to a string, push keeps the entry itself.
RECURSIVE FilterOrder(_, _)
FilterOrder(es, i) ==
    IF i > Len(es) THEN <<>>
    ELSE IF ToStr(es[i]) \in EngineNames
         THEN <<es[i]>> \o FilterOrder(es, i + 1)
         ELSE FilterOrder(es, i + 1)

\* A webStorage.order that hands out the array `order` refers to, uncopied.
webStorage_order_NoCopy(w, newOrder) ==
    LET result == Arr(w.order)
    IN IF newOrder.t # "undefined"
       THEN Res([w EXCEPT !.order = FilterOrder(newOrder.e, 1),
                          !.held = <<[val |-> result.e, alias |-> FALSE],
                                     [val |-> newOrder.e, alias |-> FALSE]>>],
                result, FALSE)
       ELSE Res([w EXCEPT !.held = <<[val |-> result.e, alias |-> TRUE]>>],
                result, FALSE)

\* webStorage.order(newOrder).  The result is angular.copy(order), an array of
\* its own; the new order is a fresh [] filled by push, not the array passed.
webStorage_order(w, newOrder) ==
    LET result == Arr(w.order)
    IN IF newOrder.t # "undefined"
       THEN Res([w EXCEPT !.order = FilterOrder(newOrder.e, 1),
                          !.held = <<[val |-> result.e, alias |-> FALSE],
                                     [val |-> newOrder.e, alias |-> FALSE]>>],
                result, FALSE)
       ELSE Res([w EXCEPT !.held = <<[val |-> result.e, alias |-> FALSE]>>],
                result, FALSE)

\* A webStorage.prefix that answers a set with the new prefix.
webStorage_prefix_ReturnsNew(w, newPrefix) ==
    IF newPrefix.t # "undefined"
    THEN IF newPrefix.t # "string" THEN Res(w, False, FALSE)
         ELSE Res([w EXCEPT !.prefix = newPrefix], newPrefix, FALSE)
    ELSE Res(w, w.prefix, FALSE)

\* A webStorage.prefix that takes whatever it is given.
webStorage_prefix_Unchecked(w, newPrefix) ==
    IF newPrefix.t # "undefined"
    THEN Res([w EXCEPT !.prefix = newPrefix], w.prefix, FALSE)
    ELSE Res(w, w.prefix, FALSE)

\* webStorage.prefix(newPrefix)
webStorage_prefix(w, newPrefix) ==
    IF newPrefix.t # "undefined"
    THEN IF newPrefix.t # "string" THEN Res(w, False, FALSE)
         ELSE Res([w EXCEPT !.prefix = newPrefix], w.prefix, FALSE)
    ELSE Res(w, w.prefix, FALSE)

-----------------------------------------------------------------------------
(* Inputs *)

\* What the host offers when the module loads: a working native Storage
\* object, none (the cookie emulation is installed), or one whose setItem throws.
Hosts ==
    {[local |-> "native", session |-> "native"],
     [local |-> "absent", session |-> "absent"],
     [local |-> "disabled", session |-> "native"],
     [local |-> "disabled", session |-> "disabled"]}

Keys == {"", "k", "constructor"}
Values == {Num("1"), Null, Circular}
Flags == {Undefined, True, False}
Indexes == {0, 1}
PrefixArgs == {Undefined, Str("p."), Str(""), Num("1")}
ErrorNameArgs == {Undefined, Str("err"), Null}
OrderArgs ==
    {Undefined,
     Arr(<<Str("memory"), Str("bogus"), Str("session")>>),
     Arr(<<Str("session"), Str("local")>>)}
Apis == {"generic", "local", "session", "memory"}

HostStorage(kind) ==
    CASE kind = "native" -> NativeStorage(<<>>, FALSE)
      [] kind = "disabled" -> NativeStorage(<<>>, TRUE)
      [] OTHER -> NoStorage

NoCall ==
    [op |-> "none", api |-> "none", key |-> "", value |-> Undefined, index |-> 0,
     flag |-> Undefined, ret |-> Undefined, threw |-> FALSE, broadcasts |-> <<>>,
     invoked |-> <<>>, held |-> <<>>, note |-> Null]

-----------------------------------------------------------------------------
(* The state machine *)

\* The factory has not run yet: its vars are hoisted and unassigned (the
\* booleans read as false, prefix as undefined).
Init ==
    /\ pc = "testLocal"
    /\ env \in Hosts
    /\ winLocal = HostStorage(env.local)
    /\ winSession = HostStorage(env.session)
    /\ cookie = <<>>
    /\ ram = <<>>
    /\ prefix = Undefined
    /\ order = <<>>
    /\ errorName = "webStorage.notification.error"
    /\ hasLocalStorage = FALSE
    /\ hasSessionStorage = FALSE
    /\ isLocalStoragePolyfilled = FALSE
    /\ isSessionStoragePolyfilled = FALSE
    /\ isSupported = [n \in EngineNames |-> FALSE]
    /\ calls = 0
    /\ last = NoCall

\* The variables of the service take the values of w.
Commit(w) ==
    /\ winLocal' = w.winLocal
    /\ winSession' = w.winSession
    /\ cookie' = w.cookie
    /\ ram' = w.ram
    /\ prefix' = w.prefix
    /\ order' = w.order
    /\ errorName' = w.errorName
    /\ hasLocalStorage' = w.hasLocalStorage
    /\ hasSessionStorage' = w.hasSessionStorage
    /\ isLocalStoragePolyfilled' = w.isLocalStoragePolyfilled
    /\ isSessionStoragePolyfilled' = w.isSessionStoragePolyfilled
    /\ isSupported' = w.isSupported

\* var hasLocalStorage = testLocalStorage();
FactoryTestLocal ==
    /\ pc = "testLocal"
    /\ LET r == testLocalStorage(W)
       IN Commit([r.w EXCEPT !.hasLocalStorage = Truthy(r.ret)])
    /\ pc' = "testSession"
    /\ UNCHANGED <<env, calls, last>>

\* var hasSessionStorage = testSessionStorage();
FactoryTestSession ==
    /\ pc = "testSession"
    /\ LET r == testSessionStorage(W)
       IN Commit([r.w EXCEPT !.hasSessionStorage = Truthy(r.ret)])
    /\ pc' = "setup"
    /\ UNCHANGED <<env, calls, last>>

\* The rest of the factory body: the two polyfill flags, order, prefix and ram
\* get their initial values and the webStorage object is built.
FactorySetup ==
    /\ pc = "setup"
    /\ Commit([W EXCEPT !.isLocalStoragePolyfilled = FALSE,
                        !.isSessionStoragePolyfilled = FALSE,
                        !.order = <<Str("local"), Str("session"), Str("memory")>>,
                        !.prefix = Str(""),
                        !.ram = <<>>,
                        !.isSupported = [n \in EngineNames |->
                            CASE n = "local" -> hasLocalStorage
                              [] n = "session" -> hasSessionStorage
                              [] OTHER -> TRUE]])
    /\ pc' = "ready"
    /\ UNCHANGED <<env, calls, last>>

\* A public call that returned r (or threw), one of at most `bound` calls.
CallWithin(bound, op, api, key, value, index, flag, r) ==
    /\ pc = "ready"
    /\ calls < bound
    /\ Commit(r.w)
    /\ calls' = calls + 1
    /\ last' = [op |-> op, api |-> api, key |-> key, value |-> value, index |-> index,
                flag |-> flag, ret |-> r.ret, threw |-> r.threw,
                broadcasts |-> r.w.broadcasts, invoked |-> r.w.invoked,
                held |-> r.w.held, note |-> r.w.note]
    /\ UNCHANGED <<pc, env>>

\* A public call that returned r (or threw).
Call(op, api, key, value, index, flag, r) ==
    /\ pc = "ready"
    /\ calls < MaxCalls
    /\ Commit(r.w)
    /\ calls' = calls + 1
    /\ last' = [op |-> op, api |-> api, key |-> key, value |-> value, index |-> index,
                flag |-> flag, ret |-> r.ret, threw |-> r.threw,
                broadcasts |-> r.w.broadcasts, invoked |-> r.w.invoked,
                held |-> r.w.held, note |-> r.w.note]
    /\ UNCHANGED <<pc, env>>

\* The flag is an argument of the generic API only.
FlagsOf(api) == IF api = "generic" THEN Flags ELSE {Undefined}

Set ==
    \E api \in Apis, key \in Keys, value \in Values : \E flag \in FlagsOf(api) :
        Call("set", api, key, value, 0, flag,
             IF api = "generic" THEN webStorage_set(W, key, value, flag)
             ELSE engineSet(W, api, key, value))

Get ==
    \E api \in Apis, key \in Keys : \E flag \in FlagsOf(api) :
        Call("get", api, key, Undefined, 0, flag,
             IF api = "generic" THEN webStorage_get(W, key, flag)
             ELSE engineGet(W, api, key))

Has ==
    \E api \in Apis, key \in Keys : \E flag \in FlagsOf(api) :
        Call("has", api, key, Undefined, 0, flag,
             IF api = "generic" THEN webStorage_has(W, key, flag)
             ELSE engineHas(W, api, key))

Key ==
    \E api \in Apis, index \in Indexes : \E flag \in FlagsOf(api) :
        Call("key", api, "", Undefined, index, flag,
             IF api = "generic" THEN webStorage_key(W, index, flag)
             ELSE engineKey(W, api, index))

Length ==
    \E api \in Apis : \E flag \in FlagsOf(api) :
        Call("length", api, "", Undefined, 0, flag,
             IF api = "generic" THEN webStorage_length(W, flag)
             ELSE engineLength(W, api))

Remove ==
    \E api \in Apis, key \in Keys : \E flag \in FlagsOf(api) :
        Call("remove", api, key, Undefined, 0, flag,
             IF api = "generic" THEN webStorage_remove(W, key, flag)
             ELSE engineRemove(W, api, key))

Clear ==
    \E api \in Apis : \E flag \in FlagsOf(api) :
        Call("clear", api, "", Undefined, 0, flag,
             IF api = "generic" THEN webStorage_clear(W, flag)
             ELSE engineClear(W, api))

IsPolyfilled ==
    \E api \in {"local", "session"}, flag \in {Undefined, True} :
        Call("isPolyfilled", api, "", Undefined, 0, flag,
             IF api = "local" THEN isLocalPolyfilled(W, flag)
             ELSE isSessionPolyfilled(W, flag))

Prefix ==
    \E arg \in PrefixArgs :
        Call("prefix", "generic", "", arg, 0, Undefined, webStorage_prefix(W, arg))

Order ==
    \E arg \in OrderArgs :
        Call("order", "generic", "", arg, 0, Undefined, webStorage_order(W, arg))

ErrorName ==
    \E arg \in ErrorNameArgs :
        Call("errorName", "generic", "", arg, 0, Undefined, webStorage_errorName(W, arg))

Next ==
    \/ FactoryTestLocal
    \/ FactoryTestSession
    \/ FactorySetup
    \/ Set
    \/ Get
    \/ Has
    \/ Key
    \/ Length
    \/ Remove
    \/ Clear
    \/ IsPolyfilled
    \/ Prefix
    \/ Order
    \/ ErrorName

Spec == Init /\ [][Next]_vars

-----------------------------------------------------------------------------
(* Backends that other code has written to: clear() under a prefix *)

MaxClearCalls == 3

\* Entries other code left in the backend before the module loads.
ForeignEntries ==
    {<<>>, <<<<"x", "f">>>>, <<<<"p.x", "1">>, <<"x", "f">>>>}

\* The entries as cookies of the document.
ForeignCookies(entries) ==
    [i \in 1..Len(entries) |->
        [name |-> escape(entries[i][1]), value |-> escape(entries[i][2]),
         persistent |-> TRUE, everPersistent |-> FALSE]]

\* The factory starts on a host whose storage objects, or whose cookie jar
\* when it has none, hold foreign entries.
InitForeign ==
    /\ pc = "testLocal"
    /\ env \in {[local |-> "native", session |-> "native"],
                [local |-> "absent", session |-> "absent"]}
    /\ \E entries \in ForeignEntries :
          IF env.local = "native"
          THEN /\ winLocal = NativeStorage(entries, FALSE)
               /\ winSession = NativeStorage(entries, FALSE)
               /\ cookie = <<>>
          ELSE /\ winLocal = NoStorage
               /\ winSession = NoStorage
               /\ cookie = ForeignCookies(entries)
    /\ ram = <<>>
    /\ prefix = Undefined
    /\ order = <<>>
    /\ errorName = "webStorage.notification.error"
    /\ hasLocalStorage = FALSE
    /\ hasSessionStorage = FALSE
    /\ isLocalStoragePolyfilled = FALSE
    /\ isSessionStoragePolyfilled = FALSE
    /\ isSupported = [n \in EngineNames |-> FALSE]
    /\ calls = 0
    /\ last = NoCall

ForeignPrefix ==
    \E arg \in {Str("p."), Str("")} :
        CallWithin(MaxClearCalls, "prefix", "generic", "", arg, 0, Undefined,
                   webStorage_prefix(W, arg))

ForeignSet ==
    \E api \in {"local", "session"}, key \in {"k", "p.k"} :
        CallWithin(MaxClearCalls, "set", api, key, Num("1"), 0, Undefined,
                   engineSet(W, api, key, Num("1")))

ForeignClear ==
    \E api \in {"local", "session"} :
        CallWithin(MaxClearCalls, "clear", api, "", Undefined, 0, Undefined,
                   engineClear(W, api))

NextForeign ==
    \/ FactoryTestLocal
    \/ FactoryTestSession
    \/ FactorySetup
    \/ ForeignPrefix
    \/ ForeignSet
    \/ ForeignClear

SpecForeign == InitForeign /\ [][NextForeign]_vars

-----------------------------------------------------------------------------
(* Properties *)

Ready == pc = "ready"

\* The values JSON can represent.
IsJSON(v) == v.t \in {"null", "boolean", "number", "string", "array"}

\* The supported engines of the order, in order.
SupportedInOrder ==
    SelectSeq([i \in 1..Len(order) |-> ToStr(order[i])], LAMBDA n : isSupported[n])

\* In world w the backend of engine E holds an entry for key under the prefix.
StoredIn(w, E, key) ==
    CASE E = "memory" -> IndexOf(w.ram, key) > 0
      [] Win(w, E).kind = "native" -> IndexOf(Win(w, E).items, RawKey(w, key)) > 0
      [] Win(w, E).kind = "polyfill" -> PolyfillHas(w.cookie, RawKey(w, key))
      [] OTHER -> FALSE

Stored(E, key) == StoredIn(W, E, key)

\* What a caller can read from engine E in world w: every key's value, the
\* length, the names.
EngineViewOf(w, E) ==
    [get |-> [k \in Keys |-> engineGet(w, E, k).ret],
     length |-> engineLength(w, E).ret,
     key |-> [i \in Indexes |-> engineKey(w, E, i).ret]]

EngineView(E) == EngineViewOf(W, E)

\* The engines entered by the last call, in order of entry.
InvokedEngines == [i \in 1..Len(last.invoked) |-> last.invoked[i].engine]

\* The logical OR of the results of the engine functions the last call entered.
InvokedOr == Bool(\E i \in 1..Len(last.invoked) : last.invoked[i].ret = True)

DirectCall(op) == Ready /\ last.op = op /\ last.api \in EngineNames
GenericCall(op) == Ready /\ last.op = op /\ last.api = "generic"

\* C1: on a supported engine E, E.set(k, v) with a JSON-representable v returns
\* true and E.get(k) right after it returns v.
C1_DirectRoundTrip ==
    (DirectCall("set") /\ isSupported[last.api] /\ IsJSON(last.value)) =>
        /\ last.ret = True
        /\ engineGet(W, last.api, last.key).ret = last.value

\* C2: on a supported engine E, a key the engine does not hold has has(k) =
\* false and get(k) = null.
C2_AbsentKey ==
    Ready =>
        \A E \in EngineNames, k \in Keys :
            (isSupported[E] /\ ~Stored(E, k)) =>
                /\ engineHas(W, E, k).ret = False
                /\ engineGet(W, E, k).ret = Null

\* C3: with a supported engine in the order, generic set(k, v) without the flag
\* returns true for a JSON-representable non-null v, and right after it generic
\* get(k) returns v and generic has(k) returns true.
C3_GenericRoundTrip ==
    (GenericCall("set") /\ last.flag = Undefined /\ SupportedInOrder # <<>>
        /\ IsJSON(last.value) /\ last.value # Null) =>
        /\ last.ret = True
        /\ webStorage_get(W, last.key, Undefined).ret = last.value
        /\ webStorage_has(W, last.key, Undefined).ret = True

\* C4: generic set(k, v) with allEngines false or omitted enters set of exactly
\* one engine, the first supported one of the order, returns that engine's
\* result and leaves what every other engine holds unchanged.
C4_SetFirstSupportedOnly ==
    [][(last'.op = "set" /\ last'.api = "generic" /\ last'.flag \in {Undefined, False}
            /\ SupportedInOrder # <<>>) =>
        /\ Len(last'.invoked) = 1
        /\ last'.invoked[1].engine = Head(SupportedInOrder)
        /\ last'.invoked[1].op = "set"
        /\ last'.ret = last'.invoked[1].ret
        /\ \A E \in EngineNames \ {Head(SupportedInOrder)} :
               EngineViewOf(W', E) = EngineView(E)]_vars

\* The value of the first supported engine of the order whose get(k) is not
\* null; null when there is none.
FirstNonNull(k) ==
    LET hits == {i \in 1..Len(order) :
                    /\ isSupported[ToStr(order[i])]
                    /\ engineGet(W, ToStr(order[i]), k).ret # Null}
    IN IF hits = {} THEN Null
       ELSE engineGet(W, ToStr(order[CHOOSE i \in hits : \A j \in hits : i <= j]), k).ret

\* C5: generic get(k) with allEngines omitted or true returns the value of the
\* first supported engine of the order whose get(k) is not null, and null only
\* when there is no such engine.
C5_GetFirstNonNull ==
    (GenericCall("get") /\ last.flag \in {Undefined, True}) => last.ret = FirstNonNull(last.key)

\* A generic get without the flag passed an engine that returned null and
\* found the value in a later one.
C5_Witness ==
    /\ GenericCall("get") /\ last.flag = Undefined
    /\ Len(last.invoked) >= 2
    /\ last.invoked[1].ret = Null
    /\ last.ret # Null

\* C6: generic set(k, v, true) enters set of every supported engine of the
\* order, whether the earlier writes succeeded or failed, and returns true
\* exactly when one of the writes returned true.
C6_SetAllEngines ==
    (GenericCall("set") /\ last.flag = True) =>
        /\ InvokedEngines = SupportedInOrder
        /\ \A i \in 1..Len(last.invoked) : last.invoked[i].op = "set"
        /\ last.ret = InvokedOr

\* A set on all engines whose first write failed and whose second succeeded.
C6_Witness ==
    /\ GenericCall("set") /\ last.flag = True
    /\ Len(last.invoked) >= 2
    /\ last.invoked[1].ret = False
    /\ last.invoked[2].ret = True
    /\ last.ret = True

\* C7: generic get(k, false), key(i, false) and length(false) return the result
\* of the first supported engine of the order, whatever it is.
C7_FirstEngineUnconditionally ==
    (Ready /\ last.api = "generic" /\ last.op \in {"get", "key", "length"}
        /\ last.flag = False /\ SupportedInOrder # <<>>) =>
        LET F == Head(SupportedInOrder)
        IN last.ret = CASE last.op = "get" -> engineGet(W, F, last.key).ret
                        [] last.op = "key" -> engineKey(W, F, last.index).ret
                        [] OTHER -> engineLength(W, F).ret

\* A generic get(k, false) returned the null of the first supported engine
\* while a later supported engine of the order holds a value for k.
C7_Witness ==
    /\ GenericCall("get") /\ last.flag = False
    /\ last.ret = Null
    /\ Len(last.invoked) = 1
    /\ \E i \in 1..Len(SupportedInOrder) :
           engineGet(W, SupportedInOrder[i], last.key).ret # Null

\* C8: generic remove(k) and clear() with allEngines omitted or true enter the
\* operation of every supported engine of the order and return the OR of the
\* results, after which generic has(k) is false and no supported engine of the
\* order holds k; with allEngines false only the first supported engine is
\* entered and every other engine keeps what it holds.
C8_RemoveClearEngines ==
    [][(last'.op \in {"remove", "clear"} /\ last'.api = "generic") =>
        IF last'.flag \in {Undefined, True}
        THEN /\ InvokedEngines' = SupportedInOrder
             /\ last'.ret = InvokedOr'
             /\ \A k \in (IF last'.op = "remove" THEN {last'.key} ELSE Keys) :
                    /\ webStorage_has(W', k, Undefined).ret = False
                    /\ \A i \in 1..Len(SupportedInOrder) :
                           ~StoredIn(W', SupportedInOrder[i], k)
        ELSE SupportedInOrder # <<>> =>
                 /\ InvokedEngines' = <<Head(SupportedInOrder)>>
                 /\ \A E \in EngineNames \ {Head(SupportedInOrder)} :
                        EngineViewOf(W', E) = EngineView(E)]_vars

\* C9: on a supported engine E, remove(k) returns true whether or not k was
\* there, E.has(k) is false afterwards, and a second remove(k) returns true
\* again and changes nothing.
C9_RemoveIdempotent ==
    (DirectCall("remove") /\ isSupported[last.api]) =>
        /\ last.ret = True
        /\ engineHas(W, last.api, last.key).ret = False
        /\ engineRemove(W, last.api, last.key).ret = True
        /\ EngineView(last.api) =
               EngineViewOf(engineRemove(W, last.api, last.key).w, last.api)

\* C10: on a supported engine E, native, cookie-emulated or in-memory, and
\* under any prefix, clear() returns true, after which E.length() is 0 and
\* every key E held before is absent.
C10_ClearEmpties ==
    [][\A E \in EngineNames :
        (last'.op = "clear" /\ last'.api = E /\ isSupported[E]) =>
            /\ last'.ret = True
            /\ engineLength(W', E).ret = Num("0")
            /\ \A k \in Keys : Stored(E, k) => engineHas(W', E, k).ret = False]_vars

-----------------------------------------------------------------------------
(* A backend that starts to throw after the module has loaded *)

MaxFaultCalls == 2

\* The members of a Storage object the service uses.
StorageMembers == {"setItem", "getItem", "removeItem", "clear", "key", "length"}

InitFault ==
    /\ Init
    /\ env = [local |-> "native", session |-> "native"]

\* The user agent makes one member of window.localStorage throw from now on.
Fault ==
    /\ pc = "ready"
    /\ winLocal.throws = {}
    /\ \E m \in StorageMembers : winLocal' = [winLocal EXCEPT !.throws = {m}]
    /\ UNCHANGED <<pc, env, winSession, cookie, ram, prefix, order, errorName,
                   hasLocalStorage, hasSessionStorage, isLocalStoragePolyfilled,
                   isSessionStoragePolyfilled, isSupported, calls, last>>

FaultSet ==
    \/ \E api \in {"generic", "local"} :
          CallWithin(MaxFaultCalls, "set", api, "k", Num("1"), 0, Undefined,
                     IF api = "generic" THEN webStorage_set(W, "k", Num("1"), Undefined)
                     ELSE engineSet(W, api, "k", Num("1")))
    \/ CallWithin(MaxFaultCalls, "set", "memory", "hasOwnProperty", Num("1"), 0,
                  Undefined, engineSet(W, "memory", "hasOwnProperty", Num("1")))

FaultGet ==
    \E api \in {"generic", "local"} :
        CallWithin(MaxFaultCalls, "get", api, "k", Undefined, 0, Undefined,
                   IF api = "generic" THEN webStorage_get(W, "k", Undefined)
                   ELSE engineGet(W, api, "k"))

FaultHas ==
    \E api \in {"generic", "local"} :
        CallWithin(MaxFaultCalls, "has", api, "k", Undefined, 0, Undefined,
                   IF api = "generic" THEN webStorage_has(W, "k", Undefined)
                   ELSE engineHas(W, api, "k"))

FaultKey ==
    \E api \in {"generic", "local", "memory"} :
        CallWithin(MaxFaultCalls, "key", api, "", Undefined, 0, Undefined,
                   IF api = "generic" THEN webStorage_key(W, 0, Undefined)
                   ELSE engineKey(W, api, 0))

FaultLength ==
    \E api \in {"generic", "local"} :
        CallWithin(MaxFaultCalls, "length", api, "", Undefined, 0, Undefined,
                   IF api = "generic" THEN webStorage_length(W, Undefined)
                   ELSE engineLength(W, api))

FaultRemove ==
    \E api \in {"generic", "local"} :
        CallWithin(MaxFaultCalls, "remove", api, "k", Undefined, 0, Undefined,
                   IF api = "generic" THEN webStorage_remove(W, "k", Undefined)
                   ELSE engineRemove(W, api, "k"))

FaultClear ==
    \E api \in {"generic", "local"} :
        CallWithin(MaxFaultCalls, "clear", api, "", Undefined, 0, Undefined,
                   IF api = "generic" THEN webStorage_clear(W, Undefined)
                   ELSE engineClear(W, api))

FaultSettings ==
    \/ CallWithin(MaxFaultCalls, "prefix", "generic", "", Str("p."), 0, Undefined,
                  webStorage_prefix(W, Str("p.")))
    \/ CallWithin(MaxFaultCalls, "errorName", "generic", "", Str("err"), 0, Undefined,
                  webStorage_errorName(W, Str("err")))
    \/ \E arg \in OrderArgs :
          CallWithin(MaxFaultCalls, "order", "generic", "", arg, 0, Undefined,
                     webStorage_order(W, arg))
    \/ CallWithin(MaxFaultCalls, "isPolyfilled", "local", "", Undefined, 0, True,
                  isLocalPolyfilled(W, True))

NextFault ==
    \/ FactoryTestLocal
    \/ FactoryTestSession
    \/ FactorySetup
    \/ Fault
    \/ FaultSet
    \/ FaultGet
    \/ FaultHas
    \/ FaultKey
    \/ FaultLength
    \/ FaultRemove
    \/ FaultClear
    \/ FaultSettings

SpecFault == InitFault /\ [][NextFault]_vars

-----------------------------------------------------------------------------
(* Properties of the calls *)

\* The entries of the backend of engine E in world w, as <<raw key, text>> pairs.
RawEntriesOf(w, E) ==
    IF Win(w, E).kind = "native" THEN Win(w, E).items
    ELSE [i \in 1..Len(w.cookie) |->
             <<unescape(w.cookie[i].name), unescape(w.cookie[i].value)>>]

\* C11: with a non-empty prefix p, local.clear() and session.clear() remove
\* exactly the backend entries whose raw key starts with p and leave every
\* other entry as it is, foreign ones included; with an empty prefix they
\* remove every entry of the backend.
C11_ClearByPrefix ==
    [][\A E \in {"local", "session"} :
        (last'.op = "clear" /\ last'.api = E /\ isSupported[E]) =>
            RawEntriesOf(W', E) =
                IF Truthy(prefix)
                THEN SelectSeq(RawEntriesOf(W, E),
                               LAMBDA e : ~StartsWith(e[1], ToStr(prefix)))
                ELSE <<>>]_vars

\* C12: no public call raises an exception to its caller, also when a member
\* of the backend throws; every failure is a return value.
C12_NoExceptionEscapes == Ready => ~last.threw

\* The member of the backend that operation op of engine E uses throws in the
\* current state.
ThrowsInside(E, op) ==
    CASE op = "set" -> "setItem" \in Win(W, E).throws
      [] op = "get" -> "getItem" \in Win(W, E).throws
      [] op = "remove" -> "removeItem" \in Win(W, E).throws
      [] op = "clear" ->
           IF Truthy(prefix)
           THEN /\ "removeItem" \in Win(W, E).throws
                /\ \E i \in 1..Len(RawEntriesOf(W, E)) :
                       StartsWith(RawEntriesOf(W, E)[i][1], ToStr(prefix))
           ELSE "clear" \in Win(W, E).throws
      [] OTHER -> FALSE

\* C13: when the backend throws inside set, get, remove or clear of local or
\* session, the call broadcasts exactly one notification, on the error name
\* configured at that moment, and returns false (set, remove, clear) or null
\* (get); the exception does not leave the call.
C13_BackendThrowCaught ==
    [][\A E \in {"local", "session"} :
        (calls' = calls + 1 /\ last'.api = E /\ isSupported[E]
            /\ ThrowsInside(E, last'.op)) =>
            /\ ~last'.threw
            /\ last'.broadcasts = <<errorName>>
            /\ last'.ret = IF last'.op = "get" THEN Null ELSE False]_vars

\* local.set failed on a throwing setItem after the error name was changed,
\* and the one notification went out on the new name.
C13_Witness ==
    /\ DirectCall("set") /\ last.api = "local"
    /\ "setItem" \in winLocal.throws
    /\ errorName = "err"
    /\ last.broadcasts = <<"err">>
    /\ last.ret = False

\* C14: on an engine whose support flag is false, set, remove and clear return
\* false, get and key return null, has returns false and length returns 0;
\* the call leaves the backend as it is and broadcasts nothing.
C14_UnsupportedNoOp ==
    [][\A E \in EngineNames :
        (calls' = calls + 1 /\ last'.api = E /\ ~isSupported[E]
            /\ last'.op \in {"set", "get", "has", "key", "length", "remove", "clear"}) =>
            /\ ~last'.threw
            /\ last'.ret = CASE last'.op \in {"set", "remove", "clear", "has"} -> False
                              [] last'.op \in {"get", "key"} -> Null
                              [] OTHER -> Num("0")
            /\ last'.broadcasts = <<>>
            /\ winLocal' = winLocal /\ winSession' = winSession
            /\ cookie' = cookie /\ ram' = ram]_vars

\* local.set on a host whose localStorage refuses every write: false, silently.
C14_Witness ==
    /\ DirectCall("set") /\ last.api = "local"
    /\ ~isSupported["local"]
    /\ last.ret = False
    /\ last.broadcasts = <<>>

\* What get(key) of the API of the last call returns in the current state.
GetAsLast(flag) ==
    IF last.api = "generic" THEN webStorage_get(W, last.key, flag).ret
    ELSE engineGet(W, last.api, last.key).ret

\* Some supported engine of the order returns a non-null get(k).
SomeEngineHas(k) ==
    \E i \in 1..Len(SupportedInOrder) : engineGet(W, SupportedInOrder[i], k).ret # Null

\* C15 as stated: has(k) is true exactly when get(k) with the same arguments is
\* not null, for the generic API and for each engine; and after a set(k, null)
\* that returned true, has(k) of the same API is false.
C15_HasIffGet_AsStated ==
    /\ (Ready /\ last.op = "has") => last.ret = Bool(GetAsLast(last.flag) # Null)
    /\ (Ready /\ last.op = "set" /\ last.value = Null /\ last.ret = True) =>
           GetAsLast(Undefined) = Null

\* C15, amended: has(k) is true exactly when get(k) with the same arguments is
\* not null; after E.set(k, null) returned true on an engine E, E.has(k) is
\* false; after the generic set(k, null) returned true, the generic has(k,
\* false) is false, and the generic has(k) is true exactly when some supported
\* engine of the order still returns a non-null get(k).
C15_HasIffGet ==
    /\ (Ready /\ last.op = "has") => last.ret = Bool(GetAsLast(last.flag) # Null)
    /\ (DirectCall("set") /\ last.value = Null /\ last.ret = True) =>
           engineHas(W, last.api, last.key).ret = False
    /\ (GenericCall("set") /\ last.value = Null /\ last.ret = True) =>
           /\ last.flag \in {Undefined, False} =>
                  webStorage_has(W, last.key, False).ret = False
           /\ webStorage_has(W, last.key, Undefined).ret = Bool(SomeEngineHas(last.key))

\* The generic set(k, null) returned true for a key another engine holds, and
\* has(k) is still true.
C15_Witness ==
    /\ GenericCall("set") /\ last.value = Null /\ last.ret = True
    /\ last.key = "k"
    /\ webStorage_has(W, "k", Undefined).ret = True
    /\ webStorage_has(W, "k", False).ret = False

-----------------------------------------------------------------------------
(* Falsy values and values without a JSON text *)

MaxValueCalls == 2

\* The falsy values a caller can store.
FalsyValues == {Num("0"), False, Str("")}

\* The values JSON.stringify has no text for: undefined and a function make it
\* return undefined, a structure with a circular reference makes it throw.
UnserializableValues == {Undefined, Func, Circular}

\* set, get, has, remove and clear with the flag omitted, as one of at most
\* `bound` calls, on the given APIs and with the given arguments.
SetOf(bound, apis, keys, values) ==
    \E api \in apis, key \in keys, value \in values :
        CallWithin(bound, "set", api, key, value, 0, Undefined,
                   IF api = "generic" THEN webStorage_set(W, key, value, Undefined)
                   ELSE engineSet(W, api, key, value))

GetOf(bound, apis, keys) ==
    \E api \in apis, key \in keys :
        CallWithin(bound, "get", api, key, Undefined, 0, Undefined,
                   IF api = "generic" THEN webStorage_get(W, key, Undefined)
                   ELSE engineGet(W, api, key))

HasOf(bound, apis, keys) ==
    \E api \in apis, key \in keys :
        CallWithin(bound, "has", api, key, Undefined, 0, Undefined,
                   IF api = "generic" THEN webStorage_has(W, key, Undefined)
                   ELSE engineHas(W, api, key))

RemoveOf(bound, apis, keys) ==
    \E api \in apis, key \in keys :
        CallWithin(bound, "remove", api, key, Undefined, 0, Undefined,
                   IF api = "generic" THEN webStorage_remove(W, key, Undefined)
                   ELSE engineRemove(W, api, key))

ClearOf(bound, apis) ==
    \E api \in apis :
        CallWithin(bound, "clear", api, "", Undefined, 0, Undefined,
                   IF api = "generic" THEN webStorage_clear(W, Undefined)
                   ELSE engineClear(W, api))

NextValues ==
    \/ FactoryTestLocal
    \/ FactoryTestSession
    \/ FactorySetup
    \/ SetOf(MaxValueCalls, Apis, {"", "k"}, FalsyValues \cup UnserializableValues)
    \/ GetOf(MaxValueCalls, Apis, {"", "k"})
    \/ HasOf(MaxValueCalls, Apis, {"", "k"})

SpecValues == Init /\ [][NextValues]_vars

\* What has(key) of the API of the last call returns in the current state.
HasAsLast ==
    IF last.api = "generic" THEN webStorage_has(W, last.key, Undefined).ret
    ELSE engineHas(W, last.api, last.key).ret

\* C16: after set(k, v) returned true with v being 0, false or the empty
\* string, on an engine or on the generic API, get(k) returns v and has(k)
\* returns true.
C16_FalsyIsPresent ==
    (Ready /\ last.op = "set" /\ last.ret = True /\ last.value \in FalsyValues) =>
        /\ GetAsLast(Undefined) = last.value
        /\ HasAsLast = True

\* C17: on a supported engine backed by a native Storage object, set(k, v) with
\* a v that has no JSON text returns false, broadcasts one notification and
\* leaves the backend as it was, so that get(k) after it raises no notification
\* that get(k) before it did not raise.
C17_UnserializableFailsAtSet ==
    [][\A E \in {"local", "session"} :
        (calls' = calls + 1 /\ last'.op = "set" /\ last'.api = E /\ isSupported[E]
            /\ Win(W, E).kind = "native" /\ last'.value \in UnserializableValues) =>
            /\ last'.ret = False
            /\ last'.broadcasts = <<errorName>>
            /\ Win(W', E) = Win(W, E)
            /\ engineGet(W', E, last'.key).w.broadcasts =
                   engineGet(W, E, last'.key).w.broadcasts]_vars

-----------------------------------------------------------------------------
(* The in-memory engine: length and the order of its keys *)

MaxMemoryCalls == 3

\* Keys of the in-memory engine; "1" is one that reads as an array index.
MemoryKeys == {"a", "b", "1"}

NextMemory ==
    \/ FactoryTestLocal
    \/ FactoryTestSession
    \/ FactorySetup
    \/ SetOf(MaxMemoryCalls, {"memory"}, MemoryKeys, {Num("1")})
    \/ RemoveOf(MaxMemoryCalls, {"memory"}, MemoryKeys)
    \/ ClearOf(MaxMemoryCalls, {"memory"})

SpecMemory == Init /\ [][NextMemory]_vars

\* C18: after any sequence of set, remove and clear on the in-memory engine,
\* length() is the number of keys stored and key(i), for 0 <= i < length(), is
\* the i-th stored key in order of insertion.
C18_MemoryInsertionOrder ==
    Ready =>
        /\ lengthInMemory(W).ret = Num(ToString(Len(ram)))
        /\ \A i \in 0..(Len(ram) - 1) : keyInMemory(W, i).ret = Str(ram[i + 1][1])

\* Engine E is unsupported, or index i is outside 0 .. E.length() - 1.
OutOfRange(E, i) ==
    \/ ~isSupported[E]
    \/ i < 0
    \/ \E n \in 0..i : engineLength(W, E).ret = Num(ToString(n))

\* C19: on every engine, key(i) returns null when i < 0 or i >= length(), and
\* when the engine is unsupported.
C19_KeyOutOfRange ==
    Ready => \A E \in EngineNames : \A i \in {-1, 0, 1, 2} :
                 OutOfRange(E, i) => engineKey(W, E, i).ret = Null

-----------------------------------------------------------------------------
(* The order setting and the entries it accepts *)

MaxOrderCalls == 2

\* Arguments of webStorage.order: none, and sequences whose entries are
\* names, unknown names, values that are no strings, and a one-element array
\* holding a name.
OrderSeqs ==
    {Undefined,
     Arr(<<>>),
     Arr(<<Str("memory"), Str("bogus"), Str("session")>>),
     Arr(<<Str("session"), Num("1"), Null, Str("session")>>),
     Arr(<<Arr(<<Str("local")>>), Str("memory")>>)}

OrderOf(bound, args) ==
    \E arg \in args :
        CallWithin(bound, "order", "generic", "", arg, 0, Undefined,
                   webStorage_order(W, arg))

KeyOf(bound, apis, indexes) ==
    \E api \in apis, index \in indexes :
        CallWithin(bound, "key", api, "", Undefined, index, Undefined,
                   IF api = "generic" THEN webStorage_key(W, index, Undefined)
                   ELSE engineKey(W, api, index))

LengthOf(bound, apis) ==
    \E api \in apis :
        CallWithin(bound, "length", api, "", Undefined, 0, Undefined,
                   IF api = "generic" THEN webStorage_length(W, Undefined)
                   ELSE engineLength(W, api))

Reversed(s) == [i \in 1..Len(s) |-> s[Len(s) + 1 - i]]

\* The caller changes an array it got from, or gave to, webStorage.order: it
\* reverses it in place or sets its length to 0.  `order` changes with it
\* when it is the same object.
MutateHeld ==
    /\ pc = "ready"
    /\ \E i \in 1..Len(last.held) : \E new \in {Reversed(last.held[i].val), <<>>} :
          /\ new # last.held[i].val
          /\ last' = [last EXCEPT !.held[i].val = new]
          /\ order' = IF last.held[i].alias THEN new ELSE order
    /\ UNCHANGED <<pc, env, winLocal, winSession, cookie, ram, prefix, errorName,
                   hasLocalStorage, hasSessionStorage, isLocalStoragePolyfilled,
                   isSessionStoragePolyfilled, isSupported, calls>>

NextOrder ==
    \/ FactoryTestLocal
    \/ FactoryTestSession
    \/ FactorySetup
    \/ OrderOf(MaxOrderCalls, OrderSeqs)
    \/ MutateHeld
    \/ SetOf(MaxOrderCalls, {"generic"}, {"k"}, {Num("1")})
    \/ GetOf(MaxOrderCalls, {"generic"}, {"k"})
    \/ HasOf(MaxOrderCalls, {"generic"}, {"k"})
    \/ KeyOf(MaxOrderCalls, {"generic"}, {0})
    \/ LengthOf(MaxOrderCalls, {"generic"})
    \/ RemoveOf(MaxOrderCalls, {"generic"}, {"k"})
    \/ ClearOf(MaxOrderCalls, {"generic"})

SpecOrder == Init /\ [][NextOrder]_vars

\* The three names webStorage.order recognizes, as values.
RecognizedNames == {Str(n) : n \in EngineNames}

\* C20: order(seq) replaces the order with the entries of seq that are equal
\* to 'local', 'session' or 'memory', in the caller's order, drops every other
\* entry, returns the previous order and does not fail; the order holds
\* nothing but those three names in every state.
C20_OrderFilter ==
    /\ [][(calls' = calls + 1 /\ last'.op = "order" /\ last'.value.t = "array") =>
            /\ ~last'.threw
            /\ last'.ret = Arr(order)
            /\ order' = SelectSeq(last'.value.e, LAMBDA x : x \in RecognizedNames)]_vars
    /\ [](Ready => \A i \in 1..Len(order) : order[i] \in RecognizedNames)

\* C21: changing the array order() returned, or the array that was passed to
\* order(seq), does not change the order, and neither does set, get, has,
\* key, length, remove or clear of the generic API.
C21_OrderCopySemantics ==
    [][/\ (calls' = calls /\ last'.held # last.held) => order' = order
       /\ (calls' = calls + 1 /\ last'.api = "generic"
             /\ last'.op \in {"set", "get", "has", "key", "length", "remove", "clear"})
            => order' = order]_vars

\* order(seq) took the names of seq; afterwards the caller emptied seq, and
\* the order still holds them.
C21_Witness ==
    /\ GenericCall("order") /\ last.value.t = "array"
    /\ Len(last.held) = 2 /\ last.held[2].val = <<>>
    /\ order = <<Str("memory"), Str("session")>>

-----------------------------------------------------------------------------
(* The prefix and errorName settings *)

MaxSettingCalls == 3

\* Arguments of webStorage.prefix and webStorage.errorName: none, strings, and
\* defined values that are no strings (number, boolean, null, array, object,
\* function).
SettingArgs ==
    {Undefined, Str("p."), Str(""), Str("err"),
     Num("1"), False, Null, Arr(<<Str("p.")>>), Circular, Func}

PrefixOf(bound, args) ==
    \E arg \in args :
        CallWithin(bound, "prefix", "generic", "", arg, 0, Undefined,
                   webStorage_prefix(W, arg))

ErrorNameOf(bound, args) ==
    \E arg \in args :
        CallWithin(bound, "errorName", "generic", "", arg, 0, Undefined,
                   webStorage_errorName(W, arg))

\* <engine>.isPolyfilled(removePolyfill).  The isPolyfilled of webStorage.memory
\* is the boolean false, no function: calling it throws a TypeError.
enginePolyfilled(w, E, removePolyfill) ==
    CASE E = "local" -> isLocalPolyfilled(w, removePolyfill)
      [] E = "session" -> isSessionPolyfilled(w, removePolyfill)
      [] OTHER -> Res(w, Undefined, TRUE)

PolyfilledOf(bound, apis, flags) ==
    \E api \in apis, flag \in flags :
        CallWithin(bound, "isPolyfilled", api, "", Undefined, 0, flag,
                   enginePolyfilled(W, api, flag))

NextSettings ==
    \/ FactoryTestLocal
    \/ FactoryTestSession
    \/ FactorySetup
    \/ PrefixOf(MaxSettingCalls, SettingArgs)
    \/ ErrorNameOf(MaxSettingCalls, SettingArgs)
    \/ SetOf(MaxSettingCalls, {"generic", "memory"}, {"k"}, {Num("1")})
    \/ PolyfilledOf(MaxSettingCalls, EngineNames, {Undefined, True, False})

SpecSettings == Init /\ [][NextSettings]_vars

\* The stored data and the settings other than the one named.
DataAndOrder == <<winLocal, winSession, cookie, ram, order>>

\* C22: prefix() and errorName() without an argument return the current value
\* and change nothing; with a string they set it and return the value from
\* before the call, and a call without an argument then returns the string.
C22_GetterSetter ==
    [][/\ (calls' = calls + 1 /\ last'.op = "prefix" /\ last'.value = Undefined) =>
            /\ last'.ret = prefix
            /\ <<prefix, errorName, DataAndOrder>>' = <<prefix, errorName, DataAndOrder>>
       /\ (calls' = calls + 1 /\ last'.op = "errorName" /\ last'.value = Undefined) =>
            /\ last'.ret = Str(errorName)
            /\ <<prefix, errorName, DataAndOrder>>' = <<prefix, errorName, DataAndOrder>>
       /\ (calls' = calls + 1 /\ last'.op = "prefix" /\ last'.value.t = "string") =>
            /\ last'.ret = prefix
            /\ prefix' = last'.value
            /\ webStorage_prefix(W', Undefined).ret = last'.value
       /\ (calls' = calls + 1 /\ last'.op = "errorName" /\ last'.value.t = "string") =>
            /\ last'.ret = Str(errorName)
            /\ errorName' = last'.value.s
            /\ webStorage_errorName(W', Undefined).ret = last'.value]_vars

\* prefix("p.") answered with the empty prefix it replaced.
C22_Witness ==
    /\ GenericCall("prefix") /\ last.value = Str("p.")
    /\ last.ret = Str("")
    /\ prefix = Str("p.")

\* C23: prefix(x) and errorName(x) with a defined x that is no string return
\* false and leave the prefix, the error name, the order and the stored data
\* as they are.
C23_NonStringRejected ==
    [][(calls' = calls + 1 /\ last'.op \in {"prefix", "errorName"}
          /\ last'.value.t \notin {"undefined", "string"}) =>
            /\ last'.ret = False
            /\ ~last'.threw
            /\ <<prefix, errorName, DataAndOrder>>' = <<prefix, errorName, DataAndOrder>>]_vars

\* generic set("k", 1), prefix("p."), then prefix(1): false, and "p." stays.
C23_Witness ==
    /\ GenericCall("prefix") /\ last.value = Num("1")
    /\ last.ret = False
    /\ prefix = Str("p.")
    /\ \E E \in EngineNames : Stored(E, "k") \/ StoredIn([W EXCEPT !.prefix = Str("")], E, "k")

-----------------------------------------------------------------------------
(* The in-memory engine under prefix changes *)

MaxPrefixCalls == 3

NextMemoryPrefix ==
    \/ FactoryTestLocal
    \/ FactoryTestSession
    \/ FactorySetup
    \/ PrefixOf(MaxPrefixCalls, {Str("p."), Str("")})
    \/ SetOf(MaxPrefixCalls, {"memory"}, {"k", "hasOwnProperty"}, {Num("1")})
    \/ GetOf(MaxPrefixCalls, {"memory"}, {"k"})
    \/ KeyOf(MaxPrefixCalls, {"memory"}, {0})
    \/ RemoveOf(MaxPrefixCalls, {"memory"}, {"k"})
    \/ ClearOf(MaxPrefixCalls, {"memory"})

SpecMemoryPrefix == Init /\ [][NextMemoryPrefix]_vars

\* C24: the in-memory engine does not apply the prefix and does not fail: a
\* prefix change leaves what memory.get returns for every key as it was,
\* memory.key returns the key as it was given to set, memory.clear() removes
\* every entry whatever the prefix, and memory.set, remove and clear return
\* true.
C24_MemoryIgnoresPrefix ==
    [][/\ (calls' = calls + 1 /\ last'.op = "prefix") =>
             \A k \in {"k", "hasOwnProperty"} :
                 engineGet(W', "memory", k).ret = engineGet(W, "memory", k).ret
       /\ (calls' = calls + 1 /\ last'.api = "memory") => ~last'.threw
       /\ (calls' = calls + 1 /\ last'.api = "memory" /\ last'.op = "key"
             /\ last'.index < Len(ram)) =>
             last'.ret = Str(ram[last'.index + 1][1])
       /\ (calls' = calls + 1 /\ last'.api = "memory" /\ last'.op = "clear") =>
             ram' = <<>>
       /\ (calls' = calls + 1 /\ last'.api = "memory"
             /\ last'.op \in {"set", "remove", "clear"}) =>
             last'.ret = True]_vars

\* C25: once the service is built, the isSupported value of each engine and
\* the flag its functions consult keep their values, whatever is called and
\* whatever the backend throws; the two agree, and the flag of the memory
\* engine is true.
C25_SupportFlagsFixed ==
    /\ [][pc = "ready" =>
            <<isSupported, hasLocalStorage, hasSessionStorage>>' =
                <<isSupported, hasLocalStorage, hasSessionStorage>>]_vars
    /\ [](Ready => /\ isSupported["memory"]
                   /\ isSupported["local"] = hasLocalStorage
                   /\ isSupported["session"] = hasSessionStorage)

\* local.set has just failed on a setItem that throws, and local is still
\* reported supported.
C25_Witness ==
    /\ DirectCall("set") /\ last.api = "local"
    /\ last.ret = False /\ last.broadcasts # <<>>
    /\ isSupported["local"] /\ hasLocalStorage

\* C26: when the service has been built, local.isPolyfilled() (session
\* likewise) returns true if the host had no native object and the cookie
\* emulation stands in its place, false if the native object is there.
C26_PolyfilledReported ==
    (Ready /\ calls = 0) =>
        \A E \in {"local", "session"} :
            enginePolyfilled(W, E, Undefined).ret = Bool(Win(W, E).kind = "polyfill")

\* C27: on an engine E whose cookie emulation is installed, E.isPolyfilled(true)
\* returns true, resets the global storage object of E and clears the
\* polyfill state of E, so that E.isPolyfilled() returns false afterwards; no
\* polyfill state goes back to true once the service is built.
C27_PolyfillRemoved ==
    [][/\ \A E \in {"local", "session"} :
            (calls' = calls + 1 /\ last'.op = "isPolyfilled" /\ last'.api = E
                /\ last'.flag = True /\ Win(W, E).kind = "polyfill") =>
                /\ last'.ret = True
                /\ Win(W', E).kind = "none"
                /\ enginePolyfilled(W', E, Undefined).ret = False
       /\ pc = "ready" =>
            /\ isLocalStoragePolyfilled' => isLocalStoragePolyfilled
            /\ isSessionStoragePolyfilled' => isSessionStoragePolyfilled]_vars

\* C28: memory.isPolyfilled(flag) can be called as the isPolyfilled of the
\* other engines is, returns false for every argument and changes nothing.
C28_MemoryNeverPolyfilled ==
    [][(calls' = calls + 1 /\ last'.op = "isPolyfilled" /\ last'.api = "memory") =>
            /\ ~last'.threw
            /\ last'.ret = False
            /\ <<prefix, errorName, DataAndOrder, isSupported>>' =
                   <<prefix, errorName, DataAndOrder, isSupported>>]_vars

-----------------------------------------------------------------------------
(* The end of the browser session, with the cookie emulation *)

MaxRestartCalls == 3

\* The whole factory body on world w: the two probes, then the initial values
\* of the settings and the engine objects.
factory(w) ==
    LET a == testLocalStorage(w)
        b == testSessionStorage([a.w EXCEPT !.hasLocalStorage = Truthy(a.ret)])
    IN [b.w EXCEPT !.hasSessionStorage = Truthy(b.ret),
                   !.isLocalStoragePolyfilled = FALSE,
                   !.isSessionStoragePolyfilled = FALSE,
                   !.order = <<Str("local"), Str("session"), Str("memory")>>,
                   !.prefix = Str(""),
                   !.ram = <<>>,
                   !.isSupported = [n \in EngineNames |->
                       CASE n = "local" -> Truthy(a.ret)
                         [] n = "session" -> Truthy(b.ret)
                         [] OTHER -> TRUE]]

\* The cookies that outlive the browser session: those with an expiry.
SurvivingCookies(jar) == SelectSeq(jar, LAMBDA c : c.persistent)

\* The browser session ends and the page is loaded in a new one: the cookies
\* without expiry are gone, so are the emulating objects, the host's
\* sessionStorage and everything the page held in memory; the host's
\* localStorage stays, and the factory is about to run again.
Restart ==
    /\ pc = "ready"
    /\ calls > 0
    /\ last.op # "restart"
    /\ pc' = "testLocal"
    /\ cookie' = SurvivingCookies(cookie)
    /\ winLocal' = IF env.local = "native" THEN winLocal ELSE HostStorage(env.local)
    /\ winSession' = HostStorage(env.session)
    /\ ram' = <<>>
    /\ prefix' = Undefined
    /\ order' = <<>>
    /\ errorName' = "webStorage.notification.error"
    /\ hasLocalStorage' = FALSE
    /\ hasSessionStorage' = FALSE
    /\ isLocalStoragePolyfilled' = FALSE
    /\ isSessionStoragePolyfilled' = FALSE
    /\ isSupported' = [n \in EngineNames |-> FALSE]
    /\ last' = [NoCall EXCEPT !.op = "restart"]
    /\ UNCHANGED <<env, calls>>

InitRestart ==
    /\ Init
    /\ env = [local |-> "absent", session |-> "absent"]

NextRestart ==
    \/ FactoryTestLocal
    \/ FactoryTestSession
    \/ FactorySetup
    \/ SetOf(MaxRestartCalls, {"local"}, {"k"}, {Num("1")})
    \/ SetOf(MaxRestartCalls, {"session"}, {"k", "s"}, {Num("0")})
    \/ RemoveOf(MaxRestartCalls, {"local", "session"}, {"k"})
    \/ GetOf(MaxRestartCalls, {"local", "session"}, {"k", "s"})
    \/ Restart

SpecRestart == InitRestart /\ [][NextRestart]_vars

\* The key of cookie c, as the engines name it under the prefix "".
CookieKey(c) == unescape(c.name)

\* C29: with the cookie emulation, an entry that was set through local and
\* has been there ever since is returned by local.get, with the value it had,
\* once the browser session has ended and the service has been built again;
\* an entry last set through session is absent from session then.
C29_DurableSurvivesRestart ==
    [][(pc = "ready" /\ pc' = "testLocal") =>
          \A i \in 1..Len(cookie) :
              /\ cookie[i].everPersistent =>
                     /\ engineGet(factory(W'), "local", CookieKey(cookie[i])).ret # Null
                     /\ engineGet(factory(W'), "local", CookieKey(cookie[i])).ret =
                            engineGet(W, "local", CookieKey(cookie[i])).ret
              /\ ~cookie[i].persistent =>
                     engineGet(factory(W'), "session", CookieKey(cookie[i])).ret = Null]_vars

-----------------------------------------------------------------------------
(* The array utilities of angular-webstorage-utils.js *)

MaxArrayCalls == 2

\* engine.get(key) and engine.add(key, value) on the object the utilities are
\* handed: webStorage itself ("generic") or one of its engines.  add warns on
\* the console and calls set.
utilGet(w, api, key) ==
    IF api = "generic" THEN webStorage_get(w, key, Undefined) ELSE engineGet(w, api, key)

utilAdd(w, api, key, value) ==
    IF api = "generic" THEN webStorage_set(w, key, value, Undefined)
    ELSE engineSet(w, api, key, value)

lengthFromEngine(w, api, key) ==
    LET g == utilGet(w, api, key)
    IN IF g.ret = Null THEN Res(g.w, Undefined, g.threw)
       ELSE Res(g.w, IF g.ret.t = "array" THEN Num(ToString(Len(g.ret.e))) ELSE Num("1"),
                g.threw)

\* currentValue once it is an array: [] for null, [currentValue] for a non-array.
AsArray(currentValue) ==
    IF currentValue = Null THEN <<>>
    ELSE IF currentValue.t = "array" THEN currentValue.e
    ELSE <<currentValue>>

\* currentValue.push(value) / currentValue.unshift(value) on the array that
\* get (result g) handed out: the in-memory engine hands out the array it
\* stores, so there the change shows in ram before anything is added.
ChangedInPlace(g, key, elems) ==
    IF /\ g.ret.t = "array"
       /\ Len(g.w.invoked) > 0
       /\ g.w.invoked[Len(g.w.invoked)].engine = "memory"
       /\ IndexOf(g.w.ram, key) > 0
    THEN [g.w EXCEPT !.ram = PutItem(@, key, Arr(elems))]
    ELSE g.w

\* return engine.add(key, currentValue) ? currentValue.length : false;
AddArray(w, api, key, elems) ==
    LET a == utilAdd(w, api, key, Arr(elems))
    IN Res(a.w, IF Truthy(a.ret) THEN Num(ToString(Len(elems))) ELSE False, a.threw)

pushToEngine(w, api, key, value) ==
    LET g == utilGet(w, api, key)
        elems == Append(AsArray(g.ret), value)
    IN AddArray(ChangedInPlace(g, key, elems), api, key, elems)

unshiftToEngine(w, api, key, value) ==
    LET g == utilGet(w, api, key)
        elems == <<value>> \o AsArray(g.ret)
    IN AddArray(ChangedInPlace(g, key, elems), api, key, elems)

ArrayKeys == {"", "k"}
StoredValues == {Num("1"), Arr(<<Num("1")>>)}
PushedValues == {Num("2"), Undefined}

PushOf(bound, apis, keys, values) ==
    \E api \in apis, key \in keys, value \in values :
        CallWithin(bound, "push", api, key, value, 0, Undefined,
                   pushToEngine(W, api, key, value))

UnshiftOf(bound, apis, keys, values) ==
    \E api \in apis, key \in keys, value \in values :
        CallWithin(bound, "unshift", api, key, value, 0, Undefined,
                   unshiftToEngine(W, api, key, value))

ArrayLengthOf(bound, apis, keys) ==
    \E api \in apis, key \in keys :
        CallWithin(bound, "array.length", api, key, Undefined, 0, Undefined,
                   lengthFromEngine(W, api, key))

NextArray ==
    \/ FactoryTestLocal
    \/ FactoryTestSession
    \/ FactorySetup
    \/ SetOf(MaxArrayCalls, Apis, ArrayKeys, StoredValues)
    \/ PushOf(MaxArrayCalls, Apis, ArrayKeys, PushedValues)
    \/ UnshiftOf(MaxArrayCalls, Apis, ArrayKeys, PushedValues)
    \/ ArrayLengthOf(MaxArrayCalls, Apis, ArrayKeys)

SpecArray == Init /\ [][NextArray]_vars

\* C30: array.push(k, v) and array.unshift(k, v), on webStorage and on each
\* engine, turn what k held (nothing, an array, a non-array x) into [v], the
\* array with v at its end or front, [x, v] or [v, x]; they return the new
\* length when the write succeeded and false when it failed, and right after
\* a successful call array.length(k) returns that length; array.length(k) is
\* undefined for an absent key and 1 for a non-array value.
C30_PushUnshift ==
    [][(pc = "ready" /\ calls' = calls + 1) =>
          LET api == last'.api
              key == last'.key
              held == utilGet(W, api, key).ret
              before == IF held = Null THEN <<>>
                        ELSE IF held.t = "array" THEN held.e ELSE <<held>>
              after == IF last'.op = "push" THEN Append(before, last'.value)
                       ELSE <<last'.value>> \o before
              wrote == \E i \in 1..Len(last'.invoked) :
                           last'.invoked[i].op = "set" /\ last'.invoked[i].ret = True
          IN /\ (last'.op \in {"push", "unshift"} /\ wrote) =>
                    /\ last'.ret = Num(ToString(Len(after)))
                    /\ utilGet(W', api, key).ret = Arr(after)
                    /\ lengthFromEngine(W', api, key).ret = last'.ret
             /\ (last'.op \in {"push", "unshift"} /\ ~wrote) => last'.ret = False
             /\ (last'.op = "array.length" /\ held = Null) => last'.ret = Undefined
             /\ (last'.op = "array.length" /\ held # Null /\ held.t # "array") =>
                    last'.ret = Num("1")]_vars

-----------------------------------------------------------------------------
(* array.pop and array.shift *)

MaxPopCalls == 3

\* engine.remove(key) on the object the utilities are handed.
utilRemove(w, api, key) ==
    IF api = "generic" THEN webStorage_remove(w, key, Undefined)
    ELSE engineRemove(w, api, key)

\* The common body of popFromEngine and shiftFromEngine after get returned g:
\* null for null; a non-array is removed and returned; from an array `result`
\* is taken (undefined when it is empty), `rest` is added back and the result
\* of add is dropped.
TakeFromEngine(g, api, key, result, rest) ==
    IF g.ret = Null THEN Res(g.w, Null, g.threw)
    ELSE IF g.ret.t # "array"
         THEN LET r == utilRemove(g.w, api, key) IN Res(r.w, g.ret, r.threw)
         ELSE LET a == utilAdd(ChangedInPlace(g, key, rest), api, key, Arr(rest))
              IN Res(a.w, result, a.threw)

\* A pop that hands out the last element and leaves the stored array alone.
popFromEngine_Keeps(w, api, key) ==
    LET g == utilGet(w, api, key)
    IN IF g.ret.t = "array" /\ Len(g.ret.e) > 0
       THEN Res(g.w, g.ret.e[Len(g.ret.e)], g.threw)
       ELSE Res(g.w, Null, g.threw)

popFromEngine(w, api, key) ==
    LET g == utilGet(w, api, key)
        n == Len(g.ret.e)
    IN TakeFromEngine(g, api, key,
                      IF n = 0 THEN Undefined ELSE g.ret.e[n],
                      IF n = 0 THEN <<>> ELSE SubSeq(g.ret.e, 1, n - 1))

shiftFromEngine(w, api, key) ==
    LET g == utilGet(w, api, key)
        n == Len(g.ret.e)
    IN TakeFromEngine(g, api, key,
                      IF n = 0 THEN Undefined ELSE g.ret.e[1],
                      IF n = 0 THEN <<>> ELSE SubSeq(g.ret.e, 2, n))

PopOf(bound, apis, keys) ==
    \E api \in apis, key \in keys :
        CallWithin(bound, "pop", api, key, Undefined, 0, Undefined,
                   popFromEngine(W, api, key))

ShiftOf(bound, apis, keys) ==
    \E api \in apis, key \in keys :
        CallWithin(bound, "shift", api, key, Undefined, 0, Undefined,
                   shiftFromEngine(W, api, key))

NextArrayPop ==
    \/ FactoryTestLocal
    \/ FactoryTestSession
    \/ FactorySetup
    \/ SetOf(MaxPopCalls, Apis, ArrayKeys, {Num("1")})
    \/ PushOf(MaxPopCalls, Apis, ArrayKeys, {Num("2")})
    \/ UnshiftOf(MaxPopCalls, Apis, ArrayKeys, {Num("3")})
    \/ PopOf(MaxPopCalls, Apis, ArrayKeys)
    \/ ShiftOf(MaxPopCalls, Apis, ArrayKeys)

SpecArrayPop == Init /\ [][NextArrayPop]_vars

\* push(k, a), push(k, b) on world w, then two pops or two shifts: the two
\* results, first call first.
TwoPops(w, api, key, a, b) ==
    LET w2 == pushToEngine(pushToEngine(w, api, key, a).w, api, key, b).w
        p1 == popFromEngine(w2, api, key)
    IN <<p1.ret, popFromEngine(p1.w, api, key).ret>>

TwoShifts(w, api, key, a, b) ==
    LET w2 == pushToEngine(pushToEngine(w, api, key, a).w, api, key, b).w
        s1 == shiftFromEngine(w2, api, key)
    IN <<s1.ret, shiftFromEngine(s1.w, api, key).ret>>

\* C31: array.pop(k) and array.shift(k) return null when k is absent; a
\* non-array value is removed and returned; from a stored array they return
\* the last (pop) or first (shift) element and the stored array becomes the
\* array without it.  And on any supported engine where k is absent,
\* push(k, a), push(k, b) followed by two pops gives b then a, by two shifts
\* a then b.
C31_PopShift ==
    /\ [][(pc = "ready" /\ calls' = calls + 1 /\ last'.op \in {"pop", "shift"}) =>
             LET api == last'.api
                 key == last'.key
                 held == utilGet(W, api, key).ret
                 now == utilGet(W', api, key).ret
             IN /\ held = Null => last'.ret = Null
                /\ (held # Null /\ held.t # "array") =>
                       last'.ret = held /\ now = Null
                /\ (held.t = "array" /\ Len(held.e) > 0 /\ last'.op = "pop") =>
                       /\ last'.ret = held.e[Len(held.e)]
                       /\ now = Arr(SubSeq(held.e, 1, Len(held.e) - 1))
                /\ (held.t = "array" /\ Len(held.e) > 0 /\ last'.op = "shift") =>
                       /\ last'.ret = held.e[1]
                       /\ now = Arr(SubSeq(held.e, 2, Len(held.e)))]_vars
    /\ [](pc = "ready" =>
             \A api \in Apis, key \in ArrayKeys :
                 ((api = "generic" \/ isSupported[api])
                  /\ utilGet(W, api, key).ret = Null) =>
                     /\ TwoPops(W, api, key, Num("1"), Num("2")) = <<Num("2"), Num("1")>>
                     /\ TwoShifts(W, api, key, Num("1"), Num("2")) = <<Num("1"), Num("2")>>)

\* push(k, v) then pop(k) on world w (unshift then shift when atFront): the
\* result of the second call and what get(k) returns after it.
PushThenPop(w, api, key, v, atFront) ==
    LET p == IF atFront THEN unshiftToEngine(w, api, key, v)
             ELSE pushToEngine(w, api, key, v)
        q == IF atFront THEN shiftFromEngine(p.w, api, key)
             ELSE popFromEngine(p.w, api, key)
    IN [ret |-> q.ret, get |-> utilGet(q.w, api, key).ret]

MaxPushPopCalls == 3

NextPushPop ==
    \/ FactoryTestLocal
    \/ FactoryTestSession
    \/ FactorySetup
    \/ SetOf(MaxPushPopCalls, Apis, {"k"}, {Num("1")})
    \/ PushOf(MaxPushPopCalls, Apis, {"k"}, {Num("2")})
    \/ PopOf(MaxPushPopCalls, Apis, {"k"})

SpecPushPop == Init /\ [][NextPushPop]_vars

-----------------------------------------------------------------------------
(* Independence of the engines *)

\* C32: the three direct engines are independent stores: a set, remove or
\* clear on one direct engine leaves the results of get, has, key and length
\* of the other two engines as they were, on native and on emulated hosts.
C32_EnginesIndependent ==
    [][(pc = "ready" /\ calls' = calls + 1
        /\ last'.op \in {"set", "remove", "clear"} /\ last'.api \in EngineNames) =>
          \A E \in EngineNames \ {last'.api} :
              EngineViewOf(W', E) = EngineView(E)]_vars

-----------------------------------------------------------------------------
(* Generic writes under changing orders *)

MaxStaleCalls == 4

\* The orders that permute the three engine names.
EnginePermutations ==
    {Arr(<<Str("local"), Str("session"), Str("memory")>>),
     Arr(<<Str("session"), Str("local"), Str("memory")>>),
     Arr(<<Str("memory"), Str("session"), Str("local")>>)}

\* r, with the caller remembering `value` as what key "k" should hold.
Noting(r, value) == Res([r.w EXCEPT !.note = value], r.ret, r.threw)

\* Generic set, remove and clear with the flag omitted; the caller remembers
\* the value of a set that reported success, and null after a remove or clear.
NotedSet ==
    \E value \in {Num("1"), Num("2")} :
        LET r == webStorage_set(W, "k", value, Undefined)
        IN CallWithin(MaxStaleCalls, "set", "generic", "k", value, 0, Undefined,
                      IF r.ret = True THEN Noting(r, value) ELSE r)

NotedRemove ==
    CallWithin(MaxStaleCalls, "remove", "generic", "k", Undefined, 0, Undefined,
               Noting(webStorage_remove(W, "k", Undefined), Null))

NotedClear ==
    CallWithin(MaxStaleCalls, "clear", "generic", "", Undefined, 0, Undefined,
               Noting(webStorage_clear(W, Undefined), Null))

\* Hosts on which all three engines are supported.
InitStale ==
    /\ Init
    /\ env \in {[local |-> "native", session |-> "native"],
                [local |-> "absent", session |-> "absent"]}

NextStale ==
    \/ FactoryTestLocal
    \/ FactoryTestSession
    \/ FactorySetup
    \/ NotedSet
    \/ NotedRemove
    \/ NotedClear
    \/ OrderOf(MaxStaleCalls, EnginePermutations)
    \/ GetOf(MaxStaleCalls, {"generic"}, {"k"})

SpecStale == InitStale /\ [][NextStale]_vars

\* C33: with the prefix fixed and all engines supported, after any sequence
\* of generic set, remove and clear calls (flag omitted) and order() calls
\* that permute the engine names, generic get(k) returns the value of the
\* most recent successful generic set(k, .) when no generic remove or clear
\* followed it, and null otherwise.
C33_NoStaleRead ==
    pc = "ready" => webStorage_get(W, "k", Undefined).ret = last.note

-----------------------------------------------------------------------------
(* Enumeration of an engine's keys *)

MaxEnumCalls == 3

\* The prefix is configured first, if at all; after that entries are written
\* through the direct engines, with the non-null value 1.
NextEnum ==
    \/ FactoryTestLocal
    \/ FactoryTestSession
    \/ FactorySetup
    \/ (calls = 0 /\ PrefixOf(MaxEnumCalls, {Str("p.")}))
    \/ SetOf(MaxEnumCalls, EngineNames, {"k", "a"}, {Num("1")})
    \/ KeyOf(MaxEnumCalls, EngineNames, {0, 1})
    \/ LengthOf(MaxEnumCalls, EngineNames)

SpecEnum == Init /\ [][NextEnum]_vars

\* All entries of engine E were written through E: on an emulated engine each
\* cookie was last written by E's own setItem (only local's carry an expiry).
WrittenThrough(E) ==
    (E # "memory" /\ Win(W, E).kind = "polyfill") =>
        \A i \in 1..Len(cookie) : cookie[i].persistent = (E = "local")

\* C34: on a supported engine E whose entries were all written through E with
\* the value 1 under the current prefix (empty or not), every name E.key(i)
\* returns for 0 <= i < E.length() is a key of the facade: E.has of it is
\* true and E.get of it returns 1.
C34_EnumerationRoundTrip ==
    pc = "ready" =>
        \A E \in EngineNames :
            (isSupported[E] /\ WrittenThrough(E)) =>
                \A i \in 0..(MaxEnumCalls - 1) :
                    (\E n \in (i + 1)..MaxEnumCalls :
                         engineLength(W, E).ret = Num(ToString(n))) =>
                        /\ ~engineKey(W, E, i).threw
                        /\ engineHas(W, E, ToStr(engineKey(W, E, i).ret)).ret = True
                        /\ engineGet(W, E, ToStr(engineKey(W, E, i).ret)).ret = Num("1")

\* C35: generic length() and generic key(i) with the flag omitted describe
\* the same engine: whatever the engines hold, key(i) is non-null exactly for
\* 0 <= i < length().
C35_KeyWithinLength ==
    pc = "ready" =>
        \A i \in 0..MaxEnumCalls :
            (webStorage_key(W, i, Undefined).ret # Null) <=>
                (\E n \in (i + 1)..MaxEnumCalls :
                     webStorage_length(W, Undefined).ret = Num(ToString(n)))

-----------------------------------------------------------------------------
(* Entries of local and session under different prefixes *)

MaxIsolationCalls == 3

IsolationPrefixes == {Str(""), Str("p.")}
IsolationKeys == {"k", "p.k"}

NextIsolation ==
    \/ FactoryTestLocal
    \/ FactoryTestSession
    \/ FactorySetup
    \/ PrefixOf(MaxIsolationCalls, IsolationPrefixes)
    \/ SetOf(MaxIsolationCalls, {"local", "session"}, IsolationKeys, {Num("1")})
    \/ RemoveOf(MaxIsolationCalls, {"local", "session"}, IsolationKeys)
    \/ GetOf(MaxIsolationCalls, {"local", "session"}, IsolationKeys)

SpecIsolation == Init /\ [][NextIsolation]_vars

\* C36: on local and session, distinct (prefix, key) pairs never address the
\* same backend entry: a set or remove made under the current prefix changes
\* the result of get for no key under any other prefix (so a key that was not
\* set under a prefix reads as null there, and what was set under it is still
\* read once the prefix is set back).
C36_PrefixIsolation ==
    [][(pc = "ready" /\ calls' = calls + 1
        /\ last'.op \in {"set", "remove"} /\ last'.api \in {"local", "session"}) =>
          \A q \in IsolationPrefixes \ {prefix} : \A k \in IsolationKeys :
              engineGet([W' EXCEPT !.prefix = q], last'.api, k).ret =
                  engineGet([W EXCEPT !.prefix = q], last'.api, k).ret]_vars

-----------------------------------------------------------------------------
(* The emulated engines' length and the probe entry *)

\* C37: for a cookie-emulated engine, after any sequence of calls on either
\* emulated engine, length() is the number of entries in the cookie store at
\* the time of the call, and key(i) for 0 <= i < length() names exactly those
\* entries.
C37_EmulatedLengthIsCurrent ==
    pc = "ready" =>
        \A E \in {"local", "session"} :
            (isSupported[E] /\ Win(W, E).kind = "polyfill") =>
                /\ engineLength(W, E).ret = Num(ToString(Len(cookie)))
                /\ \A i \in 1..Len(cookie) :
                       engineKey(W, E, i - 1).ret = Str(unescape(cookie[i].name))

====
